---- MODULE Spec2Model ----
(***************************************************************************)
(* Verification model of vector-triage: result fusion (internal/store),    *)
(* the managed-comment reconcile (internal/github), the per-event engine   *)
(* (internal/engine) and the index transport on the orphan branch.         *)
(*                                                                         *)
(* Scores and thresholds are float64 in the source; the model keeps them   *)
(* as integer hundredths (0.75 is 75).  An RRF score is the exact rational *)
(* 1/(k+rank+1) scaled by RRFScale; the ranks reachable here give sums     *)
(* whose float64 images compare exactly as the rationals do.               *)
(* Strings the code inspects (comment bodies) are sequences of tokens.     *)
(***************************************************************************)
EXTENDS Integers, Sequences, FiniteSets, TLC

VARIABLES
    \* ---- store.FuseResults: inputs and the returned list
    vecResults,     \* []VectorResult handed to FuseResults
    ftsResults,     \* []FTSResult handed to FuseResults
    excludeID,      \* excludeID argument
    config,         \* FuseConfig argument
    fused,          \* list returned by the latest evaluation
    prevFused,      \* list returned by the evaluation before it
    evals,          \* number of evaluations made on these inputs
    \* ---- github.CommentManager and the platform's comments
    comments,       \* issue/PR number -> the comments the platform holds, oldest first
    nextCommentID,  \* id the platform gives to the next created comment
    lastCall,       \* what the latest UpsertTriageComment saw, did and returned
    repeated,       \* the latest call repeated the body of a successful call just before it
    calls,          \* number of UpsertTriageComment calls made so far
    \* ---- github.StateManager and the index branch
    manager,        \* the StateManager value (Owner, Repo, Token, Branch)
    remote,         \* the index branch on the remote: exists, the tree of its tip
                    \* commit and the number of ancestors of that commit (history)
    indexFile,      \* the file at indexPath / dstPath / srcPath on the runner
    pull,           \* what the latest Pull ran and returned
    push,           \* what the latest Push ran and returned
    \* ---- cmd/triage run and engine.Engine.Handle
    pc,             \* where the current run stands: idle, pulled, opened, handled,
                    \* exit (run has returned to main), exited (the process has ended)
    run,            \* the current run: environment, event payload, parsed event, error
    handle,         \* what the latest Engine.Handle did and returned
    durable,        \* ids of the items of runs whose Handle and Push both succeeded
    runs,           \* number of runs finished so far
    \* ---- internal/store: one SQLite database and the calls made on it
    schemaDB,       \* schema of the database: objects, schema_version rows, modules
    itemsTable,     \* the rows of the items table
    itemsVec,       \* the rows of the items_vec table, in insertion order
    clock,          \* what time.Now() returns to the next store call
    storeLog,       \* per id: what the successful upserts so far were given
    dbcall,         \* what the latest store call was given, saw and returned
    dbcalls,        \* number of store calls made so far
    \* ---- internal/embed: one EmbedBatch call of a GitHubModelsEmbedder
    embed,          \* the embedder's maxRetries and where the call's retry loop stands
    \* ---- internal/ingest: one BuildPRContent call
    ingest,         \* the input given and the content returned
    \* ---- internal/engine: Engine.Handle calls on one engine
    eng             \* the engine, the index and comment its dependencies hold, the latest call

fuseVars == <<vecResults, ftsResults, excludeID, config, fused, prevFused, evals>>

commentVars == <<comments, nextCommentID, lastCall, repeated, calls>>

stateVars == <<manager, remote, indexFile, pull, push>>

runVars == <<pc, run, handle, durable, runs>>

storeVars == <<schemaDB, itemsTable, itemsVec, clock, storeLog, dbcall, dbcalls>>

embedVars == <<embed>>

ingestVars == <<ingest>>

engineVars == <<eng>>

\* the variables of the specifications of single packages
unitVars == <<storeVars, embedVars, ingestVars, engineVars>>

vars == <<vecResults, ftsResults, excludeID, config, fused, prevFused, evals,
          comments, nextCommentID, lastCall, repeated, calls,
          manager, remote, indexFile, pull, push,
          pc, run, handle, durable, runs,
          schemaDB, itemsTable, itemsVec, clock, storeLog, dbcall, dbcalls,
          embed, ingest, eng>>

(***************************************************************************)
(* Bounds                                                                  *)
(***************************************************************************)
MaxVecLen == 2      \* longest vector result list explored
MaxFtsLen == 1      \* longest FTS result list explored
MaxEvals == 2       \* evaluations of FuseResults on one input
MaxBodyLen == 2     \* longest candidate comment body explored, in tokens
MaxCalls == 2       \* UpsertTriageComment calls explored on one item
MaxStoreHits == 1   \* longest result list a store search returns inside a run
MaxRuns == 3        \* runs of the action explored one after the other
MaxMigrateCalls == 3 \* ApplyMigrations calls explored on one database
MaxItemCalls == 3    \* UpsertItem calls explored on one database
MaxVectorCalls == 3  \* UpsertVector calls explored on one database
MaxVectors == 4      \* most rows of items_vec a search runs over
MaxLimit == 2        \* largest limit given to SearchVector
MaxSearchCalls == 1  \* SearchVector calls explored on one database
MaxRetriesExplored == 64 \* largest MaxRetries an embedder is configured with
DiffExcess == 1      \* code points by which the longest diff explored passes MaxDiffChars
MaxHandleCalls == 2


(***************************************************************************)
(* Program constants (store/rrf.go)                                        *)
(***************************************************************************)
defaultSimilarityThreshold == 75
defaultDuplicateThreshold == 92
defaultMaxResults == 5
rrfK == 60

(***************************************************************************)
(* Small helpers                                                           *)
(***************************************************************************)
SeqsUpTo(S, n) == UNION {[1..m -> S] : m \in 0..n}

RECURSIVE Product(_, _)
Product(lo, hi) == IF lo > hi THEN 1 ELSE lo * Product(lo + 1, hi)

Range(s) == {s[k] : k \in 1..Len(s)}

MaxOf(a, b) == IF a > b THEN a ELSE b

\* Common denominator of every 1/(rrfK+rank+1) a list of the explored
\* lengths can contribute; an RRF score is kept as numerator over RRFScale.
RRFScale == Product(rrfK + 1, rrfK + MaxOf(MaxOf(MaxVecLen, MaxFtsLen), MaxStoreHits))

\* Byte order of the item ids of the model ("" sorts first).
IDOrder == <<"", "issue/1", "issue/2", "pr/1", "pr/2">>

IDIndex(id) == CHOOSE i \in 1..Len(IDOrder) : IDOrder[i] = id

\* Go's string comparison a < b on ids
IDLess(a, b) == IDIndex(a) < IDIndex(b)

(***************************************************************************)
(* store: clamp01, maxFloat, FuseConfig.normalized                         *)
(***************************************************************************)
clamp01(v) == IF v < 0 THEN 0 ELSE IF v > 100 THEN 100 ELSE v

maxFloat(a, b) == IF a > b THEN a ELSE b

ZeroFuseConfig == [SimilarityThreshold |-> 0, DuplicateThreshold |-> 0, MaxResults |-> 0]

normalized(c) ==
    IF c = ZeroFuseConfig
    THEN [SimilarityThreshold |-> defaultSimilarityThreshold,
          DuplicateThreshold |-> defaultDuplicateThreshold,
          MaxResults |-> defaultMaxResults]
    ELSE [SimilarityThreshold |-> clamp01(c.SimilarityThreshold),
          DuplicateThreshold |-> clamp01(c.DuplicateThreshold),
          MaxResults |-> IF c.MaxResults <= 0 THEN defaultMaxResults ELSE c.MaxResults]

(***************************************************************************)
(* store.FuseResults                                                       *)
(***************************************************************************)
\* the contribution 1.0 / float64(rrfK+rank+1), rank 0-based
rrfTerm(rank) == RRFScale \div (rrfK + rank + 1)

getOrCreateAccumulator(acc, id) ==
    IF id \in DOMAIN acc THEN acc[id]
    ELSE [ID |-> id, Title |-> "", RRFScore |-> 0, VecScore |-> 0, FTSScore |-> 0]

\* first non-empty value wins (Title stands for Type/Number/Title/State/URL)
mergeMetadata(target, title) ==
    IF target.Title = "" THEN [target EXCEPT !.Title = title] ELSE target

putAccumulator(acc, id, rec) ==
    [x \in (DOMAIN acc) \cup {id} |-> IF x = id THEN rec ELSE acc[x]]

\* the three `continue` conditions at the head of both accumulation loops
skipHitKeepSelf(id, exclude, seen) == id = "" \/ id \in seen

skipHitKeepRepeated(id, exclude, seen) == id = "" \/ id = exclude

skipHit(id, exclude, seen) == id = "" \/ id = exclude \/ id \in seen

\* loop over vecResults (index i is rank+1)
RECURSIVE accumulateVec(_, _, _, _, _)
accumulateVec(acc, seen, hits, i, exclude) ==
    IF i > Len(hits) THEN acc
    ELSE LET item == hits[i] IN
         IF skipHit(item.ID, exclude, seen)
         THEN accumulateVec(acc, seen, hits, i + 1, exclude)
         ELSE LET current == mergeMetadata(getOrCreateAccumulator(acc, item.ID), item.Title)
                  updated == [current EXCEPT
                                 !.VecScore = maxFloat(@, clamp01(item.VecScore)),
                                 !.RRFScore = @ + rrfTerm(i - 1)]
              IN accumulateVec(putAccumulator(acc, item.ID, updated),
                               seen \cup {item.ID}, hits, i + 1, exclude)

\* loop over ftsResults
RECURSIVE accumulateFTS(_, _, _, _, _)
accumulateFTS(acc, seen, hits, i, exclude) ==
    IF i > Len(hits) THEN acc
    ELSE LET item == hits[i] IN
         IF skipHit(item.ID, exclude, seen)
         THEN accumulateFTS(acc, seen, hits, i + 1, exclude)
         ELSE LET current == mergeMetadata(getOrCreateAccumulator(acc, item.ID), item.Title)
                  updated == [current EXCEPT
                                 !.FTSScore = maxFloat(@, clamp01(item.FTSScore)),
                                 !.RRFScore = @ + rrfTerm(i - 1)]
              IN accumulateFTS(putAccumulator(acc, item.ID, updated),
                               seen \cup {item.ID}, hits, i + 1, exclude)

EmptyAcc == [x \in {} |-> 0]

accumulate(vec, fts, exclude) ==
    accumulateFTS(accumulateVec(EmptyAcc, {}, vec, 1, exclude), {}, fts, 1, exclude)

displayOfMin(item) == IF item.VecScore < item.FTSScore THEN item.VecScore ELSE item.FTSScore

displayOf(item) == maxFloat(item.VecScore, item.FTSScore)

toFused(item, cfg) ==
    [ID |-> item.ID, Title |-> item.Title, RRFScore |-> item.RRFScore,
     VecScore |-> item.VecScore, FTSScore |-> item.FTSScore,
     DisplaySimilarity |-> displayOf(item),
     IsDuplicate |-> displayOf(item) >= cfg.DuplicateThreshold]

\* `for _, item := range acc`: the map is visited in the order `order`
RECURSIVE collectFused(_, _, _, _)
collectFused(acc, order, i, cfg) ==
    IF i > Len(order) THEN <<>>
    ELSE LET item == acc[order[i]]
             rest == collectFused(acc, order, i + 1, cfg)
         IN IF displayOf(item) < cfg.SimilarityThreshold
            THEN rest
            ELSE <<toFused(item, cfg)>> \o rest

\* every order a Go map over the set S of keys may be iterated in
MapOrders(S) ==
    {o \in [1..Cardinality(S) -> S] : \A i, j \in 1..Cardinality(S) : i # j => o[i] # o[j]}

\* the comparator handed to sort.Slice
lessNoIDTie(a, b) ==
    IF a.RRFScore = b.RRFScore
    THEN a.DisplaySimilarity > b.DisplaySimilarity
    ELSE a.RRFScore > b.RRFScore

lessByDisplay(a, b) ==
    IF a.DisplaySimilarity = b.DisplaySimilarity
    THEN IF a.RRFScore = b.RRFScore THEN IDLess(a.ID, b.ID) ELSE a.RRFScore > b.RRFScore
    ELSE a.DisplaySimilarity > b.DisplaySimilarity

less(a, b) ==
    IF a.RRFScore = b.RRFScore
    THEN IF a.DisplaySimilarity = b.DisplaySimilarity
         THEN IDLess(a.ID, b.ID)
         ELSE a.DisplaySimilarity > b.DisplaySimilarity
    ELSE a.RRFScore > b.RRFScore

\* sort.Slice is not stable: it may return any rearrangement of the list
\* in which no later element is `less` than an earlier one
sortOutcomes(list) ==
    LET n == Len(list)
        perms == {p \in [1..n -> 1..n] : \A i, j \in 1..n : i # j => p[i] # p[j]}
    IN {[i \in 1..n |-> list[p[i]]] : p \in
           {q \in perms : \A i, j \in 1..n : i < j => ~less(list[q[j]], list[q[i]])}}

truncate(list, n) == IF Len(list) > n THEN SubSeq(list, 1, n) ELSE list

\* The set of lists one call FuseResults(vec, fts, exclude, c) can return:
\* one for every map iteration order and every admissible sort outcome.
FuseResults(vec, fts, exclude, c) ==
    LET cfg == normalized(c)
        acc == accumulate(vec, fts, exclude)
    IN UNION {{truncate(s, cfg.MaxResults) : s \in sortOutcomes(collectFused(acc, o, 1, cfg))}
              : o \in MapOrders(DOMAIN acc)}

(***************************************************************************)
(* github.CommentManager                                                   *)
(*                                                                         *)
(* A body is a sequence of tokens: MARK is the text `<!-- triage-bot:v1    *)
(* -->`, " " and "\n" are white space, anything else is other text.        *)
(***************************************************************************)
CommentMarker == "<!-- triage-bot:v1 -->"

WhiteSpace == {" ", "\n"}

Numbers == {1, 2}

\* strings.TrimSpace
RECURSIVE trimLeft(_)
trimLeft(b) == IF b # <<>> /\ Head(b) \in WhiteSpace THEN trimLeft(Tail(b)) ELSE b

RECURSIVE trimRight(_)
trimRight(b) ==
    IF b # <<>> /\ b[Len(b)] \in WhiteSpace THEN trimRight(SubSeq(b, 1, Len(b) - 1)) ELSE b

TrimSpace(b) == trimRight(trimLeft(b))

\* strings.Contains(body, CommentMarker)
ContainsMarker(b) == \E i \in 1..Len(b) : b[i] = CommentMarker

\* strings.HasPrefix(body, CommentMarker)
HasMarkerPrefix(b) == b # <<>> /\ b[1] = CommentMarker

normalizeCommentBodyNoMarker(body) ==
    LET t == TrimSpace(body) IN
    IF t = <<>> THEN <<>>
    ELSE IF HasMarkerPrefix(t) THEN t
    ELSE t

normalizeCommentBody(body) ==
    LET t == TrimSpace(body) IN
    IF t = <<>> THEN <<>>
    ELSE IF HasMarkerPrefix(t) THEN t
    ELSE <<CommentMarker, "\n">> \o t

\* index of the first comment whose body contains the marker, 0 when none
FindTriageComment(cs) ==
    IF \E i \in 1..Len(cs) : ContainsMarker(cs[i].Body)
    THEN CHOOSE i \in 1..Len(cs) :
            ContainsMarker(cs[i].Body) /\ \A j \in 1..(i - 1) : ~ContainsMarker(cs[j].Body)
    ELSE 0

RemoveAt(cs, i) == [k \in 1..(Len(cs) - 1) |-> IF k < i THEN cs[k] ELSE cs[k + 1]]

NoComment == [ID |-> 0, Body |-> <<>>]

\* the record of a call that was never made; a call records the comments it
\* was made against (before), its candidate body, the mutating requests it
\* issued (api), the CommentAction it returned and the API step that failed
NoCall == [number |-> 0, body |-> <<>>, before |-> <<>>, action |-> "", err |-> "", api |-> <<>>]

\* same decision as UpsertTriageComment, but bodies are compared untrimmed
unchangedExact(existingBody, normalizedBody) == existingBody = normalizedBody

\* strings.TrimSpace(existing.Body) == strings.TrimSpace(normalizedBody)
unchanged(existingBody, normalizedBody) == TrimSpace(existingBody) = TrimSpace(normalizedBody)

\* what is decided once the comments are listed: the mutating request (if any)
\* and the action reported when it succeeds
planAlwaysCreate(cs, body) ==
    LET normalizedBody == normalizeCommentBody(body)
        i == FindTriageComment(cs)
    IN IF TrimSpace(normalizedBody) = <<>>
       THEN IF i = 0 THEN [action |-> "noop", op |-> "none"]
            ELSE [action |-> "deleted", op |-> "delete"]
       ELSE [action |-> "created", op |-> "create"]

plan(cs, body) ==
    LET normalizedBody == normalizeCommentBody(body)
        i == FindTriageComment(cs)
    IN IF TrimSpace(normalizedBody) = <<>>
       THEN IF i = 0 THEN [action |-> "noop", op |-> "none"]
            ELSE [action |-> "deleted", op |-> "delete"]
       ELSE IF i # 0
            THEN IF unchanged(cs[i].Body, normalizedBody)
                 THEN [action |-> "noop", op |-> "none"]
                 ELSE [action |-> "updated", op |-> "update"]
            ELSE [action |-> "created", op |-> "create"]

\* the platform's comment list after the request `op`
applyOp(cs, nextID, op, i, normalizedBody) ==
    CASE op = "create" -> Append(cs, [ID |-> nextID, Body |-> normalizedBody])
      [] op = "update" -> [cs EXCEPT ![i].Body = normalizedBody]
      [] op = "delete" -> RemoveAt(cs, i)
      [] OTHER -> cs

\* One call UpsertTriageComment(number, body) against the comment list cs.
\* fail: "" (every API call succeeds), "list" (ListIssueComments fails) or
\* "mutate" (the create/update/delete request returns an error); a request
\* that returned an error may or may not have taken effect (applied).
UpsertTriageComment(cs, nextID, number, body, fail, applied) ==
    LET normalizedBody == normalizeCommentBody(body)
        i == FindTriageComment(cs)
        existing == IF i = 0 THEN NoComment ELSE cs[i]
        p == plan(cs, body)
        request == IF p.op = "none" THEN <<>>
                   ELSE <<[op |-> p.op,
                           id |-> IF p.op = "create" THEN 0 ELSE existing.ID,
                           body |-> IF p.op = "delete" THEN <<>> ELSE normalizedBody]>>
        failed == fail = "mutate" /\ p.op # "none"
        takesEffect == p.op # "none" /\ (~failed \/ applied)
    IN IF fail = "list"
       THEN [comments |-> cs, nextID |-> nextID,
             call |-> [number |-> number, body |-> body, before |-> cs,
                       action |-> "", err |-> "list", api |-> <<>>]]
       ELSE [comments |-> IF takesEffect THEN applyOp(cs, nextID, p.op, i, normalizedBody) ELSE cs,
             nextID |-> IF takesEffect /\ p.op = "create" THEN nextID + 1 ELSE nextID,
             call |-> [number |-> number, body |-> body, before |-> cs,
                       action |-> IF failed THEN "" ELSE p.action,
                       err |-> IF failed THEN "mutate" ELSE "",
                       api |-> request]]

CommentsIdle ==
    /\ comments = [n \in Numbers |-> <<>>]
    /\ nextCommentID = 1
    /\ lastCall = NoCall
    /\ repeated = FALSE
    /\ calls = 0

(***************************************************************************)
(* github.StateManager: the index file on the orphan branch                *)
(*                                                                         *)
(* A file is a record: kind "none" (no file), "db" (a database holding the *)
(* item rows `items` and the vector rows `vecs`), "corrupt" (a partly      *)
(* written copy) or "other" (any other content).  The branch is the tree   *)
(* of its tip commit: a function from file names to files.                 *)
(***************************************************************************)
defaultIndexFileName == "index.db"

NoFile == [kind |-> "none", items |-> {}, vecs |-> {}]

CorruptFile == [kind |-> "corrupt", items |-> {}, vecs |-> {}]

OtherFile == [kind |-> "other", items |-> {}, vecs |-> {}]

DBFile(items, vecs) == [kind |-> "db", items |-> items, vecs |-> vecs]

EmptyTree == [f \in {} |-> NoFile]

NoBranch == [exists |-> FALSE, tree |-> EmptyTree, history |-> 0]

\* a branch whose tip is a root commit with the tree `tree`
Branch(tree) == [exists |-> TRUE, tree |-> tree, history |-> 0]

\* a branch whose tip has n ancestors
BranchWithHistory(tree, n) == [exists |-> TRUE, tree |-> tree, history |-> n]

\* strings.TrimSpace(s) == "" for the plain strings of the model
Blank(s) == s \in {"", " "}

\* (url, err) of StateManager.remoteURL; the url is kept as its three parts
remoteURL(m) ==
    IF Blank(m.Token) THEN [url |-> <<>>, err |-> "token is required for state manager"]
    ELSE IF Blank(m.Owner) \/ Blank(m.Repo)
         THEN [url |-> <<>>, err |-> "owner/repo is required for state manager"]
    ELSE [url |-> <<m.Token, m.Owner, m.Repo>>, err |-> ""]

\* what git prints when the ref asked for is not on the remote
GitMissingRefTexts ==
    { "fatal: couldn't find remote ref triage-index",
      "fatal: Couldn't find remote ref triage-index",
      "fatal: unknown revision or path not in the working tree" }

\* texts a failed `git fetch` may carry in its output or its error
FetchTexts == GitMissingRefTexts \cup {"fatal: unable to access remote", ""}

\* the texts that go with a failure at failAt: only a fetch reports any
FetchTextsAt(failAt) == IF failAt = "git fetch" THEN FetchTexts ELSE {""}

\* strings.Contains(strings.ToLower(raw), ...) on the texts above
isMissingBranchErrorAnyFailure(raw) == TRUE

isMissingBranchError(raw) ==
    raw \in { "fatal: couldn't find remote ref triage-index",
              "fatal: Couldn't find remote ref triage-index",
              "fatal: unknown revision or path not in the working tree" }

PullCommands == <<"git init", "git remote add", "git fetch", "git checkout">>

PullFailures == {"", "mkdir", "git init", "git remote add", "git fetch", "git checkout", "stat", "copy"}

Prefix(cmdList, last) ==
    SubSeq(cmdList, 1, CHOOSE i \in 1..Len(cmdList) : cmdList[i] = last)

PullResult(found, err, cmds, dst) == [found |-> found, err |-> err, cmds |-> cmds, dst |-> dst]

\* StateManager.Pull(dstPath) with the file `old` at dstPath and the fetched
\* tree `tree`.  failAt names the step that fails ("" for none); fetchOut and
\* fetchErr are the output and error text of a failed fetch.  dst is the file
\* at dstPath when Pull returns.
PullTruncatesDst(m, dstPath, old, tree, failAt, fetchOut, fetchErr) ==
    IF remoteURL(m).err # "" THEN PullResult(FALSE, remoteURL(m).err, <<>>, old)
    ELSE IF Blank(dstPath) THEN PullResult(FALSE, "destination path is required", <<>>, old)
    ELSE IF failAt = "mkdir" THEN PullResult(FALSE, "create temp dir", <<>>, old)
    ELSE IF failAt \in {"git init", "git remote add"}
         THEN PullResult(FALSE, failAt, Prefix(PullCommands, failAt), old)
    ELSE IF failAt = "git fetch"
         THEN PullResult(FALSE,
                         IF isMissingBranchError(fetchOut) \/ isMissingBranchError(fetchErr)
                         THEN "" ELSE "git fetch",
                         Prefix(PullCommands, "git fetch"), CorruptFile)
    ELSE IF failAt = "git checkout" \/ defaultIndexFileName \notin DOMAIN tree
         THEN PullResult(FALSE, "git checkout", PullCommands, old)
    ELSE IF failAt = "stat" THEN PullResult(FALSE, "pulled index file missing", PullCommands, old)
    ELSE IF failAt = "copy" THEN PullResult(FALSE, "copy pulled index file", PullCommands, CorruptFile)
    ELSE PullResult(TRUE, "", PullCommands, tree[defaultIndexFileName])

Pull(m, dstPath, old, tree, failAt, fetchOut, fetchErr) ==
    IF remoteURL(m).err # "" THEN PullResult(FALSE, remoteURL(m).err, <<>>, old)
    ELSE IF Blank(dstPath) THEN PullResult(FALSE, "destination path is required", <<>>, old)
    ELSE IF failAt = "mkdir" THEN PullResult(FALSE, "create temp dir", <<>>, old)
    ELSE IF failAt \in {"git init", "git remote add"}
         THEN PullResult(FALSE, failAt, Prefix(PullCommands, failAt), old)
    ELSE IF failAt = "git fetch"
         THEN PullResult(FALSE,
                         IF isMissingBranchError(fetchOut) \/ isMissingBranchError(fetchErr)
                         THEN "" ELSE "git fetch",
                         Prefix(PullCommands, "git fetch"), old)
    ELSE IF failAt = "git checkout" \/ defaultIndexFileName \notin DOMAIN tree
         THEN PullResult(FALSE, "git checkout", PullCommands, old)
    ELSE IF failAt = "stat" THEN PullResult(FALSE, "pulled index file missing", PullCommands, old)
    ELSE IF failAt = "copy" THEN PullResult(FALSE, "copy pulled index file", PullCommands, CorruptFile)
    ELSE PullResult(TRUE, "", PullCommands, tree[defaultIndexFileName])

PushCommands ==
    <<"git init", "git remote add", "git checkout --orphan", "git rm -rf .",
      "git add", "git commit", "git push --force">>

PushFailures ==
    {"", "mkdir", "git init", "git remote add", "git checkout --orphan", "copy",
     "git add", "git commit", "git push --force"}

PushResult(err, cmds, branch) == [err |-> err, cmds |-> cmds, branch |-> branch]

\* the repository Push works in: `git init` in a new temp directory, so no
\* commit, nothing staged and an empty work tree
FreshRepo == [worktree |-> EmptyTree, staged |-> EmptyTree, commits |-> 0]

\* `git rm -rf .`: every tracked file leaves the work tree and the index
gitRmAll(repo) == [repo EXCEPT !.worktree = EmptyTree, !.staged = EmptyTree]

\* copyFile(srcPath, tmpDir/index.db)
copyIntoRepo(repo, src) ==
    [repo EXCEPT !.worktree = [f \in DOMAIN @ \cup {defaultIndexFileName} |->
                                   IF f = defaultIndexFileName THEN src ELSE @[f]]]

\* `git add index.db`
gitAddIndex(repo) ==
    [repo EXCEPT !.staged = [f \in DOMAIN @ \cup {defaultIndexFileName} |->
                                 IF f = defaultIndexFileName
                                 THEN repo.worktree[defaultIndexFileName] ELSE @[f]]]

\* `git commit` on the orphan branch, then the branch as `git push --force`
\* leaves it: the tip is the new commit, its ancestors those of the local one
pushedBranch(repo) == BranchWithHistory(repo.staged, repo.commits)

\* the work Push does between `git checkout --orphan` and `git push`; the
\* outcome of `git rm -rf .` (rmFails) is not looked at
preparedRepoKeepingOld(src, old, rmFails) ==
    gitAddIndex(copyIntoRepo([FreshRepo EXCEPT !.worktree = old.tree, !.staged = old.tree,
                                               !.commits = IF old.exists THEN old.history + 1 ELSE 0],
                             src))

preparedRepo(src, old, rmFails) ==
    gitAddIndex(copyIntoRepo(IF rmFails THEN FreshRepo ELSE gitRmAll(FreshRepo), src))

\* StateManager.Push(srcPath) with the file src at srcPath and the branch
\* `old` on the remote; a failing `git rm -rf .` is ignored.  branch is the
\* remote branch when Push returns; a `git push` that returned an error may
\* or may not have updated the branch (landed).
PushWritingBeforeCommit(m, srcPath, src, old, failAt, landed, rmFails) ==
    IF remoteURL(m).err # "" THEN PushResult(remoteURL(m).err, <<>>, old)
    ELSE IF Blank(srcPath) THEN PushResult("source path is required", <<>>, old)
    ELSE IF src.kind = "none" THEN PushResult("source index file missing", <<>>, old)
    ELSE IF failAt = "mkdir" THEN PushResult("create temp dir", <<>>, old)
    ELSE IF failAt \in {"git init", "git remote add", "git checkout --orphan"}
         THEN PushResult(failAt, Prefix(PushCommands, failAt), old)
    ELSE IF failAt = "copy"
         THEN PushResult("copy index file for push", Prefix(PushCommands, "git rm -rf ."), old)
    ELSE IF failAt \in {"git add", "git commit"}
         THEN PushResult(failAt, Prefix(PushCommands, failAt),
                         pushedBranch(preparedRepo(src, old, rmFails)))
    ELSE IF failAt = "git push --force"
         THEN PushResult(failAt, PushCommands,
                         IF landed THEN pushedBranch(preparedRepo(src, old, rmFails)) ELSE old)
    ELSE PushResult("", PushCommands, pushedBranch(preparedRepo(src, old, rmFails)))

Push(m, srcPath, src, old, failAt, landed, rmFails) ==
    IF remoteURL(m).err # "" THEN PushResult(remoteURL(m).err, <<>>, old)
    ELSE IF Blank(srcPath) THEN PushResult("source path is required", <<>>, old)
    ELSE IF src.kind = "none" THEN PushResult("source index file missing", <<>>, old)
    ELSE IF failAt = "mkdir" THEN PushResult("create temp dir", <<>>, old)
    ELSE IF failAt \in {"git init", "git remote add", "git checkout --orphan"}
         THEN PushResult(failAt, Prefix(PushCommands, failAt), old)
    ELSE IF failAt = "copy"
         THEN PushResult("copy index file for push", Prefix(PushCommands, "git rm -rf ."), old)
    ELSE IF failAt \in {"git add", "git commit"}
         THEN PushResult(failAt, Prefix(PushCommands, failAt), old)
    ELSE IF failAt = "git push --force"
         THEN PushResult(failAt, PushCommands,
                         IF landed THEN pushedBranch(preparedRepo(src, old, rmFails)) ELSE old)
    ELSE PushResult("", PushCommands, pushedBranch(preparedRepo(src, old, rmFails)))

NoPull == [found |-> FALSE, err |-> "", cmds |-> <<>>, dst |-> NoFile, called |-> FALSE,
           dstPath |-> "", before |-> NoFile, tree |-> EmptyTree, failAt |-> "", fetchOut |-> "", fetchErr |-> ""]

NoPush == [err |-> "", cmds |-> <<>>, called |-> FALSE, src |-> NoFile, before |-> NoBranch,
           rmFailed |-> FALSE]

DefaultManager == [Owner |-> "acme", Repo |-> "repo", Token |-> "tkn", Branch |-> "triage-index"]

StateIdle ==
    /\ manager = DefaultManager
    /\ remote = NoBranch
    /\ indexFile = NoFile
    /\ pull = NoPull
    /\ push = NoPush

(***************************************************************************)
(* ingest, store and engine: what Engine.Handle computes                   *)
(*                                                                         *)
(* A title, body or diff is "" (empty), " " (white space only) or a text;  *)
(* an embeddable content is the sequence of its parts.  A database is the  *)
(* set of its item rows and the set of its vector rows, by item id.        *)
(***************************************************************************)
IssueIDs == <<"issue/1", "issue/2">>

PRIDs == <<"pr/1", "pr/2">>

\* store.BuildItemID for the two kinds and the numbers of the model
BuildItemID(kind, number) ==
    IF kind = "issue" THEN IssueIDs[number] ELSE PRIDs[number]

\* ingest.BuildIssueContent
BuildIssueContent(title, body) ==
    IF ~Blank(title) /\ ~Blank(body) THEN <<"Issue: title", "body">>
    ELSE IF ~Blank(title) THEN <<"Issue: title">>
    ELSE IF ~Blank(body) THEN <<"body">>
    ELSE <<>>

\* ingest.normalizeFiles
normalizeFiles(files) == SelectSeq(files, LAMBDA f : ~Blank(f))

\* ingest.BuildPRContent
BuildPRContent(in) ==
    IF Blank(in.Title) /\ Blank(in.Body) THEN <<>>
    ELSE IF Blank(in.Title) THEN <<"body">>
    ELSE IF Blank(in.Body) THEN <<"PR: title">>
    ELSE <<"PR: title", "Description: body">>
         \o (IF in.Mode # "TitleBodyOnly" /\ normalizeFiles(in.Files) # <<>>
             THEN <<"Files changed">> ELSE <<>>)
         \o (IF in.Mode = "Include" /\ ~Blank(in.Diff)
             THEN <<"Diff summary">> ELSE <<>>)

\* engine.buildEmbeddableContent
buildEmbeddableContent(event) ==
    IF event.Type = "issue" THEN BuildIssueContent(event.Title, event.Body)
    ELSE IF event.Type = "pr"
    THEN BuildPRContent([Title |-> event.Title, Body |-> event.Body,
                         Files |-> event.Files, Diff |-> event.Diff,
                         Mode |-> IF Len(event.Files) > 0 /\ Blank(event.Diff)
                                  THEN "SkipDiffKeepFiles"
                                  ELSE IF Len(event.Files) = 0 /\ Blank(event.Diff)
                                  THEN "TitleBodyOnly"
                                  ELSE "Include"])
    ELSE <<>>

\* Engine.similarityThreshold, Engine.duplicateThreshold, Engine.maxResults
similarityThreshold(e) ==
    IF e.Config.SimilarityThreshold <= 0 THEN 75 ELSE e.Config.SimilarityThreshold

duplicateThreshold(e) ==
    IF e.Config.DuplicateThreshold <= 0 THEN 92 ELSE e.Config.DuplicateThreshold

maxResults(e) == IF e.Config.MaxResults <= 0 THEN 5 ELSE e.Config.MaxResults

\* the FuseConfig literal Handle passes to FuseResults
engineFuseConfig(e) ==
    [SimilarityThreshold |-> similarityThreshold(e),
     DuplicateThreshold |-> duplicateThreshold(e),
     MaxResults |-> maxResults(e)]

\* store.UpsertItem and store.UpsertVector on a database
UpsertItem(db, id) == [db EXCEPT !.items = @ \cup {id}]

UpsertVector(db, id) == [db EXCEPT !.vecs = @ \cup {id}]

\* a failed UpsertVector: its fallback deletes the row before inserting it
\* again, so the row may be gone (lost) when the insert fails
UpsertVectorFailed(db, id, lost) == IF lost THEN [db EXCEPT !.vecs = @ \ {id}] ELSE db

\* scores a search of the store reports, in hundredths
StoreVecScores == {50, 95}

StoreFTSScores == {80}

\* result lists a SearchIndexer may hand to Handle over the database db: hits
\* on indexed rows, the row of the current item not excepted
StoreVecLists(db) ==
    SeqsUpTo([ID : db.vecs, Title : {"v"}, VecScore : StoreVecScores], MaxStoreHits)

StoreFTSLists(db) ==
    SeqsUpTo([ID : db.items, Title : {"f"}, FTSScore : StoreFTSScores], MaxStoreHits)

\* the percentage a row of the report shows for a similarity
PercentText(score) ==
    IF score >= 90 THEN "9x%" ELSE IF score >= 80 THEN "8x%" ELSE "lower%"

\* the rows of the report, one per result: its reference and its percentage
RECURSIVE reportRows(_)
reportRows(results) ==
    IF results = <<>> THEN <<>>
    ELSE <<Head(results).ID, PercentText(Head(results).DisplaySimilarity)>>
         \o reportRows(Tail(results))

\* respond.Formatter.Format: "" for no results, else a body whose first line
\* is the marker, followed by the rows
Format(results) ==
    IF results = <<>> THEN <<>>
    ELSE <<CommentMarker, "\n">> \o reportRows(results)

\* the comment body Handle reconciles: formatted only if a result survived
commentBodyMarkerOnly(fusedList, formatted) ==
    IF Len(fusedList) > 0 THEN formatted ELSE <<CommentMarker>>

commentBodyFor(fusedList, formatted) == IF Len(fusedList) > 0 THEN formatted ELSE <<>>

HandleFailures == {"", "embed", "vector search", "fts search", "upsert item", "upsert vector"}

\* the lists Handle fuses: searches run only for a non-blank content
searched(event, env) ==
    IF buildEmbeddableContent(event) # <<>>
    THEN [vec |-> env.vec, fts |-> env.fts]
    ELSE [vec |-> <<>>, fts |-> <<>>]

\* the lists FuseResults may return inside Handle
HandleFused(e, event, env) ==
    FuseResults(searched(event, env).vec, searched(event, env).fts,
                BuildItemID(event.Type, event.Number), engineFuseConfig(e))

\* trace: the calls Handle made on its dependencies, in order
HandleResult(err, db, cs, nextID, call, fusedRan, fusedList, formatterInput, trace) ==
    [err |-> err, db |-> db, comments |-> cs, nextID |-> nextID, call |-> call,
     fusedRan |-> fusedRan, fused |-> fusedList, formatterInput |-> formatterInput,
     trace |-> trace]

\* Engine.Handle(event) over the database db and the comments cs of the item.
\* env: the step that fails (failAt), the search results (vec, fts), the
\* comment API failure (fail, applied) and whether a failed UpsertVector lost
\* the row (lost).
\* out is the list FuseResults returned, one of HandleFused(e, event, env).
HandleIndexingBeforeEmbed(e, event, db, cs, nextID, env, out) ==
    LET currentID == BuildItemID(event.Type, event.Number)
        hasContent == buildEmbeddableContent(event) # <<>>
        withItem == UpsertItem(db, currentID)
        withVector == IF hasContent THEN UpsertVector(withItem, currentID) ELSE withItem
        commentBody == commentBodyFor(out, Format(out))
        u == UpsertTriageComment(cs, nextID, event.Number, commentBody, env.fail, env.applied)
        formatterInput == IF Len(out) > 0 THEN out ELSE <<>>
        searches == IF hasContent THEN <<"Embed", "SearchVector", "SearchFTS">> ELSE <<>>
        vectorCall == IF hasContent THEN <<"UpsertVector">> ELSE <<>>
        formatCall == IF Len(out) > 0 THEN <<"Format">> ELSE <<>>
    IN IF hasContent /\ env.failAt = "embed"
       THEN HandleResult("embed content", withItem, cs, nextID, NoCall, FALSE, <<>>, <<>>,
                         <<"UpsertItem", "Embed">>)
       ELSE IF hasContent /\ env.failAt = "vector search"
       THEN HandleResult("vector search", db, cs, nextID, NoCall, FALSE, <<>>, <<>>,
                         <<"Embed", "SearchVector">>)
       ELSE IF hasContent /\ env.failAt = "fts search"
       THEN HandleResult("fts search", db, cs, nextID, NoCall, FALSE, <<>>, <<>>, searches)
       ELSE IF env.failAt = "upsert item"
       THEN HandleResult("upsert item", db, cs, nextID, NoCall, TRUE, out, <<>>,
                         searches \o <<"FuseResults", "UpsertItem">>)
       ELSE IF hasContent /\ env.failAt = "upsert vector"
       THEN HandleResult("upsert vector", UpsertVectorFailed(withItem, currentID, env.lost),
                         cs, nextID, NoCall, TRUE, out, <<>>,
                         searches \o <<"FuseResults", "UpsertItem", "UpsertVector">>)
       ELSE HandleResult(IF u.call.err # "" THEN "upsert triage comment" ELSE "",
                         withVector, u.comments, u.nextID, u.call, TRUE, out, formatterInput,
                         searches \o <<"FuseResults", "UpsertItem">> \o vectorCall
                         \o formatCall \o <<"UpsertTriageComment">>)

Handle(e, event, db, cs, nextID, env, out) ==
    LET currentID == BuildItemID(event.Type, event.Number)
        hasContent == buildEmbeddableContent(event) # <<>>
        withItem == UpsertItem(db, currentID)
        withVector == IF hasContent THEN UpsertVector(withItem, currentID) ELSE withItem
        commentBody == commentBodyFor(out, Format(out))
        u == UpsertTriageComment(cs, nextID, event.Number, commentBody, env.fail, env.applied)
        formatterInput == IF Len(out) > 0 THEN out ELSE <<>>
        searches == IF hasContent THEN <<"Embed", "SearchVector", "SearchFTS">> ELSE <<>>
        vectorCall == IF hasContent THEN <<"UpsertVector">> ELSE <<>>
        formatCall == IF Len(out) > 0 THEN <<"Format">> ELSE <<>>
    IN IF hasContent /\ env.failAt = "embed"
       THEN HandleResult("embed content", db, cs, nextID, NoCall, FALSE, <<>>, <<>>,
                         <<"Embed">>)
       ELSE IF hasContent /\ env.failAt = "vector search"
       THEN HandleResult("vector search", db, cs, nextID, NoCall, FALSE, <<>>, <<>>,
                         <<"Embed", "SearchVector">>)
       ELSE IF hasContent /\ env.failAt = "fts search"
       THEN HandleResult("fts search", db, cs, nextID, NoCall, FALSE, <<>>, <<>>, searches)
       ELSE IF env.failAt = "upsert item"
       THEN HandleResult("upsert item", db, cs, nextID, NoCall, TRUE, out, <<>>,
                         searches \o <<"FuseResults", "UpsertItem">>)
       ELSE IF hasContent /\ env.failAt = "upsert vector"
       THEN HandleResult("upsert vector", UpsertVectorFailed(withItem, currentID, env.lost),
                         cs, nextID, NoCall, TRUE, out, <<>>,
                         searches \o <<"FuseResults", "UpsertItem", "UpsertVector">>)
       ELSE HandleResult(IF u.call.err # "" THEN "upsert triage comment" ELSE "",
                         withVector, u.comments, u.nextID, u.call, TRUE, out, formatterInput,
                         searches \o <<"FuseResults", "UpsertItem">> \o vectorCall
                         \o formatCall \o <<"UpsertTriageComment">>)

(***************************************************************************)
(* cmd/triage: one run of the action                                       *)
(***************************************************************************)
\* parseConfigFromEnv: the error ("" for none) and the config.  Thresholds
\* are the parsed inputs in hundredths.
parseConfigFromEnv(env) ==
    IF Blank(env.GITHUB_TOKEN) \/ Blank(env.GITHUB_EVENT_NAME) \/ Blank(env.GITHUB_REPOSITORY)
    THEN [err |-> "missing required env", cfg |-> env]
    ELSE IF env.INPUT_MAX_RESULTS < 1 \/ env.INPUT_MAX_RESULTS > 20
    THEN [err |-> "INPUT_MAX_RESULTS must be between 1 and 20", cfg |-> env]
    ELSE IF env.INPUT_SIMILARITY_THRESHOLD < 0 \/ env.INPUT_SIMILARITY_THRESHOLD > 100
    THEN [err |-> "INPUT_SIMILARITY_THRESHOLD must be between 0 and 1", cfg |-> env]
    ELSE IF env.INPUT_DUPLICATE_THRESHOLD < 0 \/ env.INPUT_DUPLICATE_THRESHOLD > 100
    THEN [err |-> "INPUT_DUPLICATE_THRESHOLD must be between 0 and 1", cfg |-> env]
    ELSE [err |-> "", cfg |-> env]

\* github.ParseRepository on the repository names of the model
ParseRepository(repository) ==
    IF repository = "acme/repo" THEN [err |-> "", owner |-> "acme", repo |-> "repo"]
    ELSE [err |-> "invalid repository format", owner |-> "", repo |-> ""]

NoEvent == [Type |-> "", Number |-> 0, Title |-> "", Body |-> "", Files |-> <<>>, Diff |-> ""]

\* github.ParseEventFile: parseIssueEvent / parsePullRequestEvent by event name
ParseEventFile(eventName, payload) ==
    IF eventName \notin {"issues", "pull_request", "pull_request_target"}
    THEN [err |-> "unsupported event name", event |-> NoEvent]
    ELSE IF payload.Number = 0
    THEN [err |-> "number missing in event payload", event |-> NoEvent]
    ELSE [err |-> "",
          event |-> [Type |-> IF eventName = "issues" THEN "issue" ELSE "pr",
                     Number |-> payload.Number, Title |-> payload.Title,
                     Body |-> payload.Body, Files |-> <<>>, Diff |-> ""]]

\* store.Open on the file at indexPath: a missing file becomes an empty
\* migrated database, a database is kept, anything else does not open
Open(file) ==
    IF file.kind = "none" THEN [err |-> "", db |-> DBFile({}, {})]
    ELSE IF file.kind = "db" THEN [err |-> "", db |-> file]
    ELSE [err |-> "open store", db |-> file]

indexPath == "/tmp/triage-index.db"

NoEnv ==
    [GITHUB_TOKEN |-> "", GITHUB_EVENT_NAME |-> "", GITHUB_REPOSITORY |-> "",
     INPUT_SIMILARITY_THRESHOLD |-> 0, INPUT_DUPLICATE_THRESHOLD |-> 0, INPUT_MAX_RESULTS |-> 0]

NoPayload == [Number |-> 0, Title |-> "", Body |-> ""]

\* prev is how the run before this one ended: "", "ok" or "failed"
\* log is what the process printed, status its exit status (-1 while it runs);
\* filesFailed and diffFailed tell whether the request for the pull request's
\* files, or for its diff, returned an error
NoRun == [env |-> NoEnv, payload |-> NoPayload, event |-> NoEvent, err |-> "", prev |-> "",
          log |-> <<>>, status |-> -1, filesFailed |-> FALSE, diffFailed |-> FALSE]

\* logWarning: nothing for a nil error, else one line `::warning::` + message
logWarning(log, err) == IF err = "" THEN log ELSE Append(log, <<"::warning::", err>>)

\* the status the process ends with once run has returned err to main
exitStatusFailing(err) == IF err = "" THEN 0 ELSE 1

exitStatus(err) == 0

\* github.NewClient and embed.NewGitHubModelsEmbedder: the error, "" for none
NewClient(token) == IF Blank(token) THEN "create github client" ELSE ""

NewGitHubModelsEmbedder(token) == IF Blank(token) THEN "create embedder" ELSE ""

\* failAt is the failure the environment injected, trace the calls made,
\* dbBefore and commentsBefore what the call started from
NoHandle == [called |-> FALSE, err |-> "", currentID |-> "", fusedRan |-> FALSE,
             formatterInput |-> <<>>, itemsBefore |-> {}, failAt |-> "", trace |-> <<>>,
             dbBefore |-> NoFile, commentsBefore |-> <<>>]

RunIdle ==
    /\ pc = "idle"
    /\ run = NoRun
    /\ handle = NoHandle
    /\ durable = {}
    /\ runs = 0

(***************************************************************************)
(* internal/engine: Engine.Handle over its dependencies                    *)
(*                                                                         *)
(* The dependencies are the interfaces of engine.go: an Embedder, a        *)
(* SearchIndexer and a CommentManager.  The index behind the SearchIndexer *)
(* holds per item id the content of the latest UpsertItem and the vector   *)
(* of the latest UpsertVector.  A vector is the sequence of its            *)
(* components; the vector of a content is written <<content>>.             *)
(***************************************************************************)
EngineItemIDs == {"issue/1", "pr/1"}

NoRow == [row |-> FALSE, value |-> <<>>]

Row(value) == [row |-> TRUE, value |-> value]

EmptyIndex == [items |-> [id \in EngineItemIDs |-> NoRow], vecs |-> [id \in EngineItemIDs |-> NoRow]]

\* what an Embedder returns for a content: an error, or the vector the
\* service sent back, which may have no component
EmbeddingOf(content) == <<content>>

Embed(content, env) ==
    IF env.failAt = "embed" THEN [err |-> "embed failed", vec |-> <<>>]
    ELSE [err |-> "", vec |-> IF env.emptyEmbedding THEN <<>> ELSE EmbeddingOf(content)]

\* one call made on a dependency: the id it was given (currentID of the
\* searches and upserts), the limit of a search, and the text, vector or
\* body handed over
EngineCall(op, id, limit, arg) == [op |-> op, id |-> id, limit |-> limit, arg |-> arg]

EngineResult(err, index, trace, embedding, fuseConfig, fusedList, body) ==
    [err |-> err, index |-> index, trace |-> trace, embedding |-> embedding,
     fuseConfig |-> fuseConfig, fused |-> fusedList, body |-> body]

EngineFailures ==
    {"", "embed", "vector search", "fts search", "upsert item", "upsert vector",
     "upsert triage comment"}

\* the lists Handle hands to FuseResults: the searches run only on a content
\* that is not blank
engineSearched(event, env) ==
    IF buildEmbeddableContent(event) # <<>>
    THEN [vec |-> env.vec, fts |-> env.fts]
    ELSE [vec |-> <<>>, fts |-> <<>>]

\* the lists FuseResults may return inside Handle
EngineFused(e, event, env) ==
    FuseResults(engineSearched(event, env).vec, engineSearched(event, env).fts,
                BuildItemID(event.Type, event.Number), engineFuseConfig(e))

\* Handle's test of the Embedder: it is required only inside the branch taken
\* for a content that is not blank
embedderMissingAnyContent(e, content) == ~e.Embedder

embedderMissing(e, content) == content # <<>> /\ ~e.Embedder

\* Engine.Handle(event) on the engine e (Embedder: whether one is set; Config)
\* over the index.  env: the dependency call that fails (failAt), whether the
\* embedder's vector has no component (emptyEmbedding), and the lists the
\* searches return (vec, fts).  out is the list FuseResults returned, one of
\* EngineFused(e, event, env).  The result carries the calls made, in order.
EngineHandleVectorFirst(e, index, event, env, out) ==
    LET currentID == BuildItemID(event.Type, event.Number)
        content == buildEmbeddableContent(event)
        hasContent == content # <<>>
        emb == IF hasContent THEN Embed(content, env) ELSE [err |-> "", vec |-> <<>>]
        embedding == emb.vec
        limit == maxResults(e)
        cfg == engineFuseConfig(e)
        searches ==
            IF hasContent
            THEN <<EngineCall("Embed", "", 0, content),
                   EngineCall("SearchVector", currentID, limit, embedding),
                   EngineCall("SearchFTS", currentID, limit, content)>>
            ELSE <<>>
        withVector == IF Len(embedding) > 0
                      THEN [index EXCEPT !.vecs[currentID] = Row(embedding)] ELSE index
        withItem == [withVector EXCEPT !.items[currentID] = Row(content)]
        itemCall == <<EngineCall("UpsertItem", currentID, 0, content)>>
        vectorCall == IF Len(embedding) > 0
                      THEN <<EngineCall("UpsertVector", currentID, 0, embedding)>> ELSE <<>>
        commentBody == commentBodyFor(out, Format(out))
        commentCall == <<EngineCall("UpsertTriageComment", "", 0, commentBody)>>
    IN IF embedderMissing(e, content)
       THEN EngineResult("embedder dependency is required when content is available",
                         index, <<>>, <<>>, cfg, <<>>, <<>>)
       ELSE IF hasContent /\ emb.err # ""
       THEN EngineResult("embed content", index, SubSeq(searches, 1, 1), <<>>, cfg, <<>>, <<>>)
       ELSE IF hasContent /\ env.failAt = "vector search"
       THEN EngineResult("vector search", index, SubSeq(searches, 1, 2), embedding, cfg,
                         <<>>, <<>>)
       ELSE IF hasContent /\ env.failAt = "fts search"
       THEN EngineResult("fts search", index, searches, embedding, cfg, <<>>, <<>>)
       ELSE IF Len(embedding) > 0 /\ env.failAt = "upsert vector"
       THEN EngineResult("upsert vector", index, searches \o vectorCall, embedding, cfg,
                         out, <<>>)
       ELSE IF env.failAt = "upsert item"
       THEN EngineResult("upsert item", withVector, searches \o vectorCall \o itemCall,
                         embedding, cfg, out, <<>>)
       ELSE EngineResult(IF env.failAt = "upsert triage comment"
                         THEN "upsert triage comment" ELSE "",
                         withItem, searches \o vectorCall \o itemCall \o commentCall,
                         embedding, cfg, out, commentBody)

EngineHandle(e, index, event, env, out) ==
    LET currentID == BuildItemID(event.Type, event.Number)
        content == buildEmbeddableContent(event)
        hasContent == content # <<>>
        emb == IF hasContent THEN Embed(content, env) ELSE [err |-> "", vec |-> <<>>]
        embedding == emb.vec
        limit == maxResults(e)
        cfg == engineFuseConfig(e)
        searches ==
            IF hasContent
            THEN <<EngineCall("Embed", "", 0, content),
                   EngineCall("SearchVector", currentID, limit, embedding),
                   EngineCall("SearchFTS", currentID, limit, content)>>
            ELSE <<>>
        withItem == [index EXCEPT !.items[currentID] = Row(content)]
        withVector == IF Len(embedding) > 0
                      THEN [withItem EXCEPT !.vecs[currentID] = Row(embedding)] ELSE withItem
        itemCall == <<EngineCall("UpsertItem", currentID, 0, content)>>
        vectorCall == IF Len(embedding) > 0
                      THEN <<EngineCall("UpsertVector", currentID, 0, embedding)>> ELSE <<>>
        commentBody == commentBodyFor(out, Format(out))
        commentCall == <<EngineCall("UpsertTriageComment", "", 0, commentBody)>>
    IN IF embedderMissing(e, content)
       THEN EngineResult("embedder dependency is required when content is available",
                         index, <<>>, <<>>, cfg, <<>>, <<>>)
       ELSE IF hasContent /\ emb.err # ""
       THEN EngineResult("embed content", index, SubSeq(searches, 1, 1), <<>>, cfg, <<>>, <<>>)
       ELSE IF hasContent /\ env.failAt = "vector search"
       THEN EngineResult("vector search", index, SubSeq(searches, 1, 2), embedding, cfg,
                         <<>>, <<>>)
       ELSE IF hasContent /\ env.failAt = "fts search"
       THEN EngineResult("fts search", index, searches, embedding, cfg, <<>>, <<>>)
       ELSE IF env.failAt = "upsert item"
       THEN EngineResult("upsert item", index, searches \o itemCall, embedding, cfg, out, <<>>)
       ELSE IF Len(embedding) > 0 /\ env.failAt = "upsert vector"
       THEN EngineResult("upsert vector", withItem, searches \o itemCall \o vectorCall,
                         embedding, cfg, out, <<>>)
       ELSE EngineResult(IF env.failAt = "upsert triage comment"
                         THEN "upsert triage comment" ELSE "",
                         withVector, searches \o itemCall \o vectorCall \o commentCall,
                         embedding, cfg, out, commentBody)

NoEngineCall ==
    [called |-> FALSE, event |-> NoEvent, content |-> <<>>, failAt |-> "", emptyEmbedding |-> FALSE,
     before |-> EmptyIndex,
     vec |-> <<>>, fts |-> <<>>,
     result |-> EngineResult("", EmptyIndex, <<>>, <<>>, ZeroFuseConfig, <<>>, <<>>)]

\* latest: per item id, the content of its most recent event that Handle
\* handled without error; failed: a Handle call has returned an error
NoEngine ==
    [e |-> [Embedder |-> FALSE, Config |-> ZeroFuseConfig], index |-> EmptyIndex,
     latest |-> [id \in EngineItemIDs |-> NoRow], failed |-> FALSE, calls |-> 0,
     last |-> NoEngineCall]

EngineIdle == eng = NoEngine

(***************************************************************************)
(* internal/store: schema migrations                                       *)
(*                                                                         *)
(* The schema of a database is the set of its objects (tables, indexes,    *)
(* triggers, each with the kind it was created as), the rows of            *)
(* schema_version in insertion order, and the modules the SQLite build     *)
(* offers.  A failing statement is chosen by failAt (the step) and         *)
(* failVersion (the migration it belongs to).                              *)
(***************************************************************************)
latestSchemaVersion == 2

migrations == <<[version |-> 1, name |-> "create_items"],
                [version |-> 2, name |-> "create_search_tables"]>>

SQLiteModules == {"fts5", "vec0"}

Obj(name, kind) == [name |-> name, kind |-> kind]

ObjectNames(db) == {o.name : o \in db.objects}

\* CREATE ... IF NOT EXISTS: an object of that name stays as it is
CreateIfNotExists(db, name, kind) ==
    IF name \in ObjectNames(db) THEN db
    ELSE [db EXCEPT !.objects = @ \cup {Obj(name, kind)}]

FreshSchema(modules) == [objects |-> {}, versions |-> <<>>, modules |-> modules]

CountRows(rows, v) == Cardinality({k \in 1..Len(rows) : rows[k] = v})

ensureSchemaVersionTable(db) == CreateIfNotExists(db, "schema_version", "table")

\* SELECT COALESCE(MAX(version), 0) FROM schema_version
currentSchemaVersionZero(db) == 0

currentSchemaVersion(db) ==
    IF db.versions = <<>> THEN 0
    ELSE CHOOSE v \in Range(db.versions) : \A w \in Range(db.versions) : w <= v

migrateV1(db) ==
    LET a == CreateIfNotExists(db, "items", "table")
        b == CreateIfNotExists(a, "idx_items_type", "index")
        c == CreateIfNotExists(b, "idx_items_number", "index")
    IN  CreateIfNotExists(c, "idx_items_state", "index")

\* the virtual table when the module is there, the plain fallback table when not
ensureFTSTable(db) ==
    CreateIfNotExists(db, "items_fts", IF "fts5" \in db.modules THEN "fts5" ELSE "table")

ensureVectorTable(db) ==
    CreateIfNotExists(db, "items_vec", IF "vec0" \in db.modules THEN "vec0" ELSE "table")

migrateV2(db) ==
    LET a == ensureFTSTable(db)
        b == CreateIfNotExists(a, "items_fts_insert", "trigger")
        c == CreateIfNotExists(b, "items_fts_delete", "trigger")
        d == CreateIfNotExists(c, "items_fts_update", "trigger")
    IN  ensureVectorTable(d)

up(m, db) == IF m.version = 1 THEN migrateV1(db) ELSE migrateV2(db)

MigrationSteps == <<"begin", "up", "insert", "commit">>

\* one migration in one transaction: any failing step rolls the whole of it
\* back; version is the primary key of schema_version, so a second row of
\* one version is refused
applyMigrationNoRollback(db, m, failAt) ==
    LET inTx == up(m, db) IN
    IF failAt = "begin" THEN [err |-> failAt, db |-> db]
    ELSE IF failAt \in Range(MigrationSteps) THEN [err |-> failAt, db |-> inTx]
    ELSE IF CountRows(inTx.versions, m.version) > 0
         THEN [err |-> "insert", db |-> inTx]
         ELSE [err |-> "", db |-> [inTx EXCEPT !.versions = Append(@, m.version)]]

applyMigration(db, m, failAt) ==
    LET inTx == up(m, db) IN
    IF failAt \in Range(MigrationSteps) THEN [err |-> failAt, db |-> db]
    ELSE IF CountRows(inTx.versions, m.version) > 0
         THEN [err |-> "insert", db |-> db]
         ELSE [err |-> "", db |-> [inTx EXCEPT !.versions = Append(@, m.version)]]

RECURSIVE applyPending(_, _, _, _, _)
applyPending(db, k, current, failAt, failVersion) ==
    IF k > Len(migrations) THEN [err |-> "", db |-> db]
    ELSE LET m == migrations[k] IN
         IF m.version <= current
         THEN applyPending(db, k + 1, current, failAt, failVersion)
         ELSE LET r == applyMigration(db, m, IF failVersion = m.version THEN failAt ELSE "") IN
              IF r.err # "" THEN [err |-> "apply migration", db |-> r.db]
              ELSE applyPending(r.db, k + 1, current, failAt, failVersion)

ApplyMigrations(db, failAt, failVersion) ==
    IF failAt = "ensure" THEN [err |-> "ensure schema_version table", db |-> db]
    ELSE LET ensured == ensureSchemaVersionTable(db) IN
         IF failAt = "read" THEN [err |-> "read current schema version", db |-> ensured]
         ELSE applyPending(ensured, 1, currentSchemaVersion(ensured), failAt, failVersion)

\* the database ApplyMigrations leaves at version v
RECURSIVE SchemaAt(_, _)
SchemaAt(v, modules) ==
    IF v = 0 THEN FreshSchema(modules)
    ELSE LET below == ensureSchemaVersionTable(SchemaAt(v - 1, modules)) IN
         [up(migrations[v], below) EXCEPT !.versions = Append(@, v)]

NoDBCall == [op |-> "", err |-> "", before |-> FreshSchema({}), failAt |-> "", failVersion |-> 0]

NoStoreLog == [items |-> <<>>, vecs |-> <<>>, failed |-> FALSE]

TablesIdle ==
    /\ itemsTable = {}
    /\ itemsVec = <<>>
    /\ clock = 0
    /\ storeLog = NoStoreLog

StoreIdle ==
    /\ schemaDB = FreshSchema({})
    /\ TablesIdle
    /\ dbcall = NoDBCall
    /\ dbcalls = 0

NoEmbed ==
    [pc |-> "idle", configured |-> 0, maxRetries |-> 0, texts |-> 0, attempt |-> 0,
     requests |-> 0, failures |-> 0, sleeps |-> 0, wait |-> 0, header |-> [kind |-> "none", value |-> 0],
     err |-> ""]

EmbedIdle == embed = NoEmbed

NoIngest ==
    [called |-> FALSE,
     in |-> [Title |-> <<>>, Body |-> <<>>, Files |-> <<>>, Diff |-> <<>>, Mode |-> "Include"],
     content |-> <<>>]

IngestIdle == ingest = NoIngest

UnitIdle == StoreIdle /\ EmbedIdle /\ IngestIdle /\ EngineIdle

(***************************************************************************)
(* internal/store: Store.UpsertItem on the items table                     *)
(*                                                                         *)
(* A time is a number of ticks, 0 being the zero time.Time; a []string is  *)
(* NilSlice or a sequence.  A column holds what the statement binds: the   *)
(* JSON text of a slice, the RFC 3339 text of a time.                      *)
(***************************************************************************)
NilSlice == "nil"

\* json.Marshal of a []string: null for the nil slice, an array otherwise
jsonMarshal(list) == IF list = NilSlice THEN <<"null">> ELSE <<"[">> \o list \o <<"]">>

\* t.Format(time.RFC3339Nano)
formatTime(t) == <<"RFC3339Nano", t>>

IsZero(t) == t = 0

SetFn(f, k, v) == [x \in DOMAIN f \cup {k} |-> IF x = k THEN v ELSE f[x]]

ItemRow(rec, createdAt, updatedAt) ==
    [id |-> rec.ID, type |-> rec.Type, number |-> rec.Number, title |-> rec.Title,
     body |-> rec.Body, author |-> rec.Author, state |-> rec.State,
     labels |-> jsonMarshal(rec.Labels), files |-> jsonMarshal(rec.Files),
     url |-> rec.URL, created_at |-> formatTime(createdAt),
     updated_at |-> formatTime(updatedAt)]

\* INSERT ... ON CONFLICT(id) DO UPDATE SET every column but id and created_at
\* (insertOrReplaceItem: the row replaced whole, created_at with it)
insertOrReplaceItem(table, row) ==
    {r \in table : r.id # row.id} \cup {row}

insertOnConflictUpdate(table, row) ==
    LET old == {r \in table : r.id = row.id} IN
    IF old = {} THEN table \cup {row}
    ELSE (table \ old) \cup {[row EXCEPT !.created_at = r.created_at] : r \in old}

StoreUpsertItem(table, rec, now, execFails) ==
    IF Blank(rec.ID) THEN [err |-> "item id is required", table |-> table]
    ELSE IF Blank(rec.Type) THEN [err |-> "item type is required", table |-> table]
    ELSE IF rec.Number <= 0 THEN [err |-> "item number must be positive", table |-> table]
    ELSE LET createdAt == IF IsZero(rec.CreatedAt) THEN now ELSE rec.CreatedAt
             updatedAt == IF IsZero(rec.UpdatedAt) THEN now ELSE rec.UpdatedAt
         IN  IF execFails THEN [err |-> "upsert item", table |-> table]
             ELSE [err |-> "",
                   table |-> insertOnConflictUpdate(table, ItemRow(rec, createdAt, updatedAt))]

(***************************************************************************)
(* internal/store: Store.UpsertVector on the items_vec table               *)
(*                                                                         *)
(* items_vec is the sequence of its rows in insertion order.  Whether the  *)
(* build rejects INSERT OR REPLACE on an id that already has a row is the  *)
(* build's choice (replaceRejected).                                       *)
(***************************************************************************)
VecLen(embedding) == IF embedding = NilSlice THEN 0 ELSE Len(embedding)

\* sqlite_vec.SerializeFloat32: the little-endian bytes of the floats
SerializeFloat32(embedding) == <<"f32le">> \o embedding

VecIDs(rows) == {rows[k].id : k \in 1..Len(rows)}

deleteVec(rows, id) == SelectSeq(rows, LAMBDA r : r.id # id)

insertVec(rows, id, bytes) == Append(rows, [id |-> id, embedding |-> bytes])

\* INSERT OR REPLACE: the row of that id, if any, gives way to the new one
\* (insertVecKeepingOld: the new row beside the old one)
insertVecKeepingOld(rows, id, bytes) == insertVec(rows, id, bytes)

insertOrReplaceVec(rows, id, bytes) == insertVec(deleteVec(rows, id), id, bytes)

VectorFailures == {"", "replace", "delete", "insert"}

StoreUpsertVector(rows, id, embedding, replaceRejected, failAt) ==
    IF Blank(id) THEN [err |-> "item id is required", rows |-> rows, path |-> ""]
    ELSE IF VecLen(embedding) = 0 THEN [err |-> "embedding is required", rows |-> rows, path |-> ""]
    ELSE LET serialized == SerializeFloat32(embedding) IN
         IF failAt = "replace" THEN [err |-> "upsert vector", rows |-> rows, path |-> "replace"]
         ELSE IF ~(replaceRejected /\ id \in VecIDs(rows))
         THEN [err |-> "", rows |-> insertOrReplaceVec(rows, id, serialized), path |-> "replace"]
         ELSE IF failAt = "delete"
         THEN [err |-> "upsert vector delete existing", rows |-> rows, path |-> "delete+insert"]
         ELSE IF failAt = "insert"
         THEN [err |-> "upsert vector insert", rows |-> deleteVec(rows, id), path |-> "delete+insert"]
         ELSE [err |-> "", rows |-> insertVec(deleteVec(rows, id), id, serialized),
               path |-> "delete+insert"]

(***************************************************************************)
(* internal/store: Store.SearchVector                                      *)
(*                                                                         *)
(* A distance is in hundredths, as the scores are.  The vectors explored   *)
(* have norms that are whole numbers, so that the cosine is exact.         *)
(***************************************************************************)
RECURSIVE Dot(_, _)
Dot(a, b) == IF a = <<>> THEN 0 ELSE Head(a) * Head(b) + Dot(Tail(a), Tail(b))

Sqrt(n) == CHOOSE r \in 0..n : r * r = n

\* 1 - cosine similarity; 2 for vectors that cannot be compared, 1 for a zero vector
cosineDistance(a, b) ==
    IF VecLen(a) = 0 \/ VecLen(b) = 0 \/ VecLen(a) # VecLen(b) THEN 200
    ELSE IF Dot(a, a) = 0 \/ Dot(b, b) = 0 THEN 100
    ELSE 100 - ((100 * Dot(a, b)) \div (Sqrt(Dot(a, a)) * Sqrt(Dot(b, b))))

\* decodeFloat32Vector: the floats of the little-endian bytes
decodeFloat32Vector(blob) == Tail(blob)

vectorHit(row, queryEmbedding) ==
    [ID |-> row.id, Distance |-> cosineDistance(queryEmbedding, decodeFloat32Vector(row.embedding))]

Orders(n) == {p \in [1..n -> 1..n] : \A i, j \in 1..n : i # j => p[i] # p[j]}

Take(s, n) == IF Len(s) <= n THEN s ELSE SubSeq(s, 1, n)

\* the nearest candidateLimit rows, nearest first.  The vec0 query leaves the
\* order of equally distant rows open; the brute-force fallback orders them by id
vectorOnlySearch(rows, queryEmbedding, candidateLimit, bruteForce) ==
    LET n == Len(rows)
        hitOf(k) == vectorHit(rows[k], queryEmbedding)
        inOrder(p) ==
            \A i \in 1..n : \A j \in 1..n : i < j =>
                \/ hitOf(p[i]).Distance < hitOf(p[j]).Distance
                \/ /\ hitOf(p[i]).Distance = hitOf(p[j]).Distance
                   /\ (bruteForce => IDLess(hitOf(p[i]).ID, hitOf(p[j]).ID))
    IN  {Take([i \in 1..n |-> hitOf(p[i])], candidateLimit) : p \in {q \in Orders(n) : inOrder(q)}}

\* SELECT ... FROM items WHERE id = ?: the metadata of the row, if there is one
lookupItemMeta(table, id) == {r \in table : r.id = id}

VectorResult(item, hit) ==
    [ID |-> item.id, Type |-> item.type, Number |-> item.number, Title |-> item.title,
     State |-> item.state, URL |-> item.url, Distance |-> hit.Distance,
     VecScore |-> clamp01(100 - hit.Distance)]

\* the loop over the hits: results so far, and the lookups made
RECURSIVE hydrate(_, _, _, _, _, _, _)
hydrate(hits, k, table, exclude, limit, results, lookups) ==
    IF k > Len(hits) THEN [results |-> results, lookups |-> lookups]
    ELSE IF hits[k].ID = exclude
         THEN hydrate(hits, k + 1, table, exclude, limit, results, lookups)
    ELSE LET found == lookupItemMeta(table, hits[k].ID) IN
         IF found = {}
         THEN hydrate(hits, k + 1, table, exclude, limit, results, lookups + 1)
         ELSE LET item == CHOOSE r \in found : TRUE
                  more == Append(results, VectorResult(item, hits[k]))
              IN  IF Len(more) >= limit
                  THEN [results |-> more, lookups |-> lookups + 1]
                  ELSE hydrate(hits, k + 1, table, exclude, limit, more, lookups + 1)

\* candidateLimitSame: as many candidates as results wanted
candidateLimitSame(limit) == limit

\* candidateLimitNoHeadroom: no candidate beyond the results wanted
candidateLimitNoHeadroom(limit) == IF limit < 1 THEN 1 ELSE limit

candidateLimit(limit) == IF limit * 3 < 1 THEN 1 ELSE limit * 3

NoSearch == [err |-> "", results |-> <<>>, requested |-> 0, hits |-> <<>>, lookups |-> 0]

\* the set of what the call can return: one outcome per order the query may answer in
StoreSearchVector(table, rows, queryEmbedding, exclude, limit, bruteForce, queryFails) ==
    IF VecLen(queryEmbedding) = 0 \/ limit <= 0 THEN {NoSearch}
    ELSE IF queryFails
         THEN {[NoSearch EXCEPT !.err = "vector query failed", !.requested = candidateLimit(limit)]}
    ELSE {LET h == hydrate(hits, 1, table, exclude, limit, <<>>, 0) IN
          [err |-> "", results |-> h.results, requested |-> candidateLimit(limit),
           hits |-> hits, lookups |-> h.lookups] :
            hits \in vectorOnlySearch(rows, queryEmbedding, candidateLimit(limit), bruteForce)}

(***************************************************************************)
(* internal/embed: GitHubModelsEmbedder.EmbedBatch                         *)
(*                                                                         *)
(* A wait is a number of seconds.  A Retry-After header is absent, a       *)
(* number of seconds, an HTTP date (kept as its distance from now, in      *)
(* seconds) or other text.  Go's int is IntBits wide; TLC's is narrower,   *)
(* so a power of two above Saturated is kept as Saturated: the code only   *)
(* compares the shifted value with 1 and with 30.                          *)
(***************************************************************************)
IntBits == 64

Saturated == 2 ^ 30

\* 1 << attempt in a two's-complement int: the bit leaves the word at
\* IntBits, and sits in the sign bit just before
shiftLeftOne(attempt) ==
    IF attempt >= IntBits THEN 0
    ELSE IF attempt = IntBits - 1 THEN -Saturated
    ELSE IF attempt >= 30 THEN Saturated
    ELSE 2 ^ attempt

backoffDuration(attempt) ==
    LET seconds == shiftLeftOne(attempt)
        atLeast1 == IF seconds < 1 THEN 1 ELSE seconds
    IN  IF atLeast1 > 30 THEN 30 ELSE atLeast1

NoHeader == [kind |-> "none", value |-> 0]

\* strconv.Atoi and seconds > 0, else http.ParseTime and time.Until(when) > 0, else 0
parseRetryAfter(raw) ==
    IF raw.kind = "seconds" /\ raw.value > 0 THEN raw.value
    ELSE IF raw.kind = "date" /\ raw.value > 0 THEN raw.value
    ELSE 0

\* NewGitHubModelsEmbedder: a negative MaxRetries counts as none
normalizedMaxRetries(cfgMaxRetries) == IF cfgMaxRetries < 0 THEN 0 ELSE cfgMaxRetries

\* lastAttemptNever: the loop sleeps after its last attempt too
lastAttemptNever(attempt, maxRetries) == FALSE

lastAttempt(attempt, maxRetries) == attempt = maxRetries

waitBeforeRetry(retryAfter, attempt) ==
    IF retryAfter <= 0 THEN backoffDuration(attempt) ELSE retryAfter

(***************************************************************************)
(* internal/ingest: BuildPRContent on texts                                *)
(*                                                                         *)
(* Here a text is the sequence of its code points; the fixed texts the     *)
(* code adds ("PR: ", the blank line between sections, ...) are one        *)
(* element each.  BuildPRContentText is BuildPRContent on such texts.      *)
(***************************************************************************)
MaxDiffChars == 4000

\* TruncateDiffWhole: the diff as it came
TruncateDiffWhole(diff, maxChars) == diff

TruncateDiff(diff, maxChars) ==
    IF maxChars <= 0 THEN <<>>
    ELSE IF Len(diff) <= maxChars THEN diff
    ELSE SubSeq(diff, 1, maxChars)

\* strings.Join
RECURSIVE Join(_, _)
Join(parts, sep) ==
    IF parts = <<>> THEN <<>>
    ELSE IF Len(parts) = 1 THEN parts[1]
    ELSE parts[1] \o <<sep>> \o Join(Tail(parts), sep)

\* normalizeFiles on texts: every name trimmed, the empty ones dropped
normalizeFileNames(files) ==
    SelectSeq([k \in 1..Len(files) |-> TrimSpace(files[k])], LAMBDA f : f # <<>>)

BuildPRContentText(in) ==
    LET title == TrimSpace(in.Title)
        body == TrimSpace(in.Body)
    IN  IF title = <<>> /\ body = <<>> THEN <<>>
        ELSE IF title = <<>> THEN body
        ELSE IF body = <<>> THEN <<"PR: ">> \o title
        ELSE LET files == normalizeFileNames(in.Files)
                 diff == TrimSpace(in.Diff)
                 parts == << <<"PR: ">> \o title, <<"Description: ">> \o body >>
                 withFiles ==
                    IF in.Mode # "TitleBodyOnly" /\ Len(files) > 0
                    THEN Append(parts, <<"Files changed: ">> \o Join(files, ", "))
                    ELSE parts
                 withDiff ==
                    IF in.Mode = "Include" /\ diff # <<>>
                    THEN Append(withFiles, <<"Diff summary: ">> \o TruncateDiff(diff, MaxDiffChars))
                    ELSE withFiles
             IN  Join(withDiff, "\n\n")

(***************************************************************************)
(* The text of the errors of Pull and Push and of the line main prints     *)
(*                                                                         *)
(* A text is the sequence of its parts; the token, the owner and the       *)
(* repository are parts of their own.                                      *)
(***************************************************************************)
\* fmt.Sprintf("https://x-access-token:%s@github.com/%s/%s.git", ...) on the
\* three parts of remoteURL
remoteURLText(m) ==
    LET u == remoteURL(m).url IN
    <<"https://x-access-token:", u[1], "@github.com/", u[2], "/", u[3], ".git">>

\* the arguments Pull and Push run git with
gitArgs(m, cmd) ==
    IF cmd = "git init" THEN <<"init">>
    ELSE IF cmd = "git remote add" THEN <<"remote", "add", "origin">> \o remoteURLText(m)
    ELSE IF cmd = "git fetch" THEN <<"fetch", "origin", m.Branch, "--depth=1">>
    ELSE IF cmd = "git checkout" THEN <<"checkout", "FETCH_HEAD", "--", defaultIndexFileName>>
    ELSE IF cmd = "git checkout --orphan" THEN <<"checkout", "--orphan", m.Branch>>
    ELSE IF cmd = "git add" THEN <<"add", defaultIndexFileName>>
    ELSE IF cmd = "git commit"
    THEN <<"-c", "user.name=triage-bot", "-c",
           "user.email=triage-bot@users.noreply.github.com", "commit", "-m",
           "Update triage index [skip ci]">>
    ELSE <<"push", "origin", m.Branch, "--force">>

GitCommandNames ==
    {"git init", "git remote add", "git fetch", "git checkout", "git checkout --orphan",
     "git add", "git commit", "git push --force"}

\* ExecRunner.Run: fmt.Errorf("%s %s: %w (%s)", name, strings.Join(args, " "),
\* err, strings.TrimSpace(string(output)))
execError(args, output) ==
    <<"git", " ">> \o args \o <<": ", "exit status", " (">> \o TrimSpace(output) \o <<")">>

\* err.Error() of the error Pull or Push returned as err, m being the
\* manager and output what the failed git command printed
stateErrorText(m, err, output) ==
    IF err \in GitCommandNames THEN execError(gitArgs(m, err), output) ELSE <<err>>

\* run: fmt.Errorf("pull state: %w", err), fmt.Errorf("push state: %w", err)
wrapError(prefix, text) == <<prefix, ": ">> \o text

\* logWarning: fmt.Printf("::warning::%s\n", strings.TrimSpace(err.Error()))
logWarningText(text) == <<"::warning::">> \o TrimSpace(text) \o <<"\n">>

(***************************************************************************)
(* SpecComment: serialized UpsertTriageComment calls on one item           *)
(***************************************************************************)
BodyTokens == {CommentMarker, " ", "x"}

CandidateBodies == SeqsUpTo(BodyTokens, MaxBodyLen)

\* bodies already on the item before the first call
InitialBodies ==
    { <<"x">>,
      <<CommentMarker, "\n", "x", "x">>,
      <<CommentMarker, "\n", "x", " ">>,
      <<"x", CommentMarker>> }

ManagedCount(cs) == Cardinality({i \in 1..Len(cs) : ContainsMarker(cs[i].Body)})

InitialComments ==
    {cs \in {[i \in 1..Len(bs) |-> [ID |-> i, Body |-> bs[i]]] : bs \in SeqsUpTo(InitialBodies, 2)} :
        ManagedCount(cs) <= 1}

FuseIdle ==
    /\ vecResults = <<>>
    /\ ftsResults = <<>>
    /\ excludeID = ""
    /\ config = ZeroFuseConfig
    /\ fused = <<>>
    /\ prevFused = <<>>
    /\ evals = 0

InitComment ==
    /\ FuseIdle
    /\ \E cs \in InitialComments :
          /\ comments = [n \in Numbers |-> IF n = 1 THEN cs ELSE <<>>]
          /\ nextCommentID = Len(cs) + 1
    /\ lastCall = NoCall
    /\ repeated = FALSE
    /\ calls = 0
    /\ StateIdle
    /\ RunIdle
    /\ UnitIdle

Upsert ==
    /\ calls < MaxCalls
    /\ calls' = calls + 1
    /\ \E body \in CandidateBodies, fail \in {"", "list", "mutate"}, applied \in BOOLEAN :
          LET r == UpsertTriageComment(comments[1], nextCommentID, 1, body, fail, applied) IN
          /\ (fail = "mutate" => r.call.err = "mutate")
          /\ (applied => fail = "mutate")
          /\ comments' = [comments EXCEPT ![1] = r.comments]
          /\ nextCommentID' = r.nextID
          /\ lastCall' = r.call
          /\ repeated' = (lastCall.number = 1 /\ lastCall.err = "" /\ lastCall.body = body)
    /\ UNCHANGED fuseVars
    /\ UNCHANGED stateVars
    /\ UNCHANGED runVars
    /\ UNCHANGED unitVars

NextComment == Upsert

SpecComment == InitComment /\ [][NextComment]_vars

(***************************************************************************)
(* SpecState: Pull and Push of any StateManager against any branch         *)
(***************************************************************************)
\* the manager run builds, and one with each required field blank
Managers ==
    { DefaultManager,
      [DefaultManager EXCEPT !.Token = ""],
      [DefaultManager EXCEPT !.Owner = " "],
      [DefaultManager EXCEPT !.Repo = ""] }

\* index files a branch or a runner may hold
SampleDBs == {DBFile({}, {}), DBFile({"issue/1"}, {"issue/1"})}

\* branches found on the remote: absent, the index alone, the index among
\* other files, other files only
SampleBranches ==
    {NoBranch}
    \cup {Branch([f \in {defaultIndexFileName} |-> db]) : db \in SampleDBs}
    \cup {Branch([f \in {defaultIndexFileName, "README.md"} |->
                     IF f = defaultIndexFileName THEN db ELSE OtherFile]) : db \in SampleDBs}
    \cup {BranchWithHistory([f \in {defaultIndexFileName, "README.md"} |->
                                 IF f = defaultIndexFileName THEN DBFile({}, {}) ELSE OtherFile], 2)}
    \cup {Branch([f \in {"README.md"} |-> OtherFile])}

InitState ==
    /\ FuseIdle
    /\ CommentsIdle
    /\ manager \in Managers
    /\ remote \in SampleBranches
    /\ indexFile \in {NoFile} \cup SampleDBs
    /\ pull = NoPull
    /\ push = NoPush
    /\ RunIdle
    /\ UnitIdle

\* what git can report for the branch as it is: a fetch of a missing branch
\* fails, a checkout of a file the tree lacks fails
GitCanReport(branch, failAt) ==
    /\ (~branch.exists => failAt \in {"mkdir", "git init", "git remote add", "git fetch"})

\* pull and push hold the latest call only: each call forgets the other's
DoPull ==
    \E dstPath \in {"", "/tmp/triage-index.db"}, failAt \in PullFailures :
      \E fetchOut \in FetchTextsAt(failAt), fetchErr \in FetchTextsAt(failAt) :
        LET r == Pull(manager, dstPath, indexFile, remote.tree, failAt, fetchOut, fetchErr) IN
        /\ GitCanReport(remote, failAt)
        /\ pull' = [found |-> r.found, err |-> r.err, cmds |-> r.cmds, dst |-> r.dst,
                    called |-> TRUE, dstPath |-> dstPath, before |-> indexFile,
                    tree |-> remote.tree,
                    failAt |-> failAt, fetchOut |-> fetchOut, fetchErr |-> fetchErr]
        /\ indexFile' = r.dst
        /\ push' = NoPush
        /\ UNCHANGED <<manager, remote>>
        /\ UNCHANGED fuseVars
        /\ UNCHANGED commentVars
        /\ UNCHANGED runVars
        /\ UNCHANGED unitVars

DoPush ==
    \E srcPath \in {"", "/tmp/triage-index.db"}, failAt \in PushFailures, landed \in BOOLEAN,
       rmFails \in BOOLEAN :
        LET r == Push(manager, srcPath, indexFile, remote, failAt, landed, rmFails) IN
        /\ (landed => failAt = "git push --force")
        /\ (rmFails => "git rm -rf ." \in {r.cmds[k] : k \in 1..Len(r.cmds)})
        /\ push' = [err |-> r.err, cmds |-> r.cmds, called |-> TRUE, src |-> indexFile,
                    before |-> remote, rmFailed |-> rmFails]
        /\ remote' = r.branch
        /\ pull' = NoPull
        /\ UNCHANGED <<manager, indexFile>>
        /\ UNCHANGED fuseVars
        /\ UNCHANGED commentVars
        /\ UNCHANGED runVars
        /\ UNCHANGED unitVars

NextState == DoPull \/ DoPush

SpecState == InitState /\ [][NextState]_vars

(***************************************************************************)
(* SpecMigrate: ApplyMigrations called again and again on one database     *)
(***************************************************************************)
InitialSchemas ==
    {SchemaAt(v, modules) : v \in 0..latestSchemaVersion, modules \in SUBSET SQLiteModules}

InitMigrate ==
    /\ EmbedIdle
    /\ IngestIdle
    /\ EngineIdle
    /\ FuseIdle
    /\ CommentsIdle
    /\ StateIdle
    /\ RunIdle
    /\ schemaDB \in InitialSchemas
    /\ TablesIdle
    /\ dbcall = NoDBCall
    /\ dbcalls = 0

Migrate ==
    /\ UNCHANGED <<embedVars, ingestVars, engineVars>>
    /\ dbcalls < MaxMigrateCalls
    /\ \E failAt \in {"", "ensure", "read"} \cup Range(MigrationSteps),
          failVersion \in 0..latestSchemaVersion :
          LET r == ApplyMigrations(schemaDB, failAt, failVersion) IN
          /\ (failVersion # 0) = (failAt \in Range(MigrationSteps))
          /\ schemaDB' = r.db
          /\ dbcall' = [op |-> "ApplyMigrations", err |-> r.err, before |-> schemaDB,
                        failAt |-> failAt, failVersion |-> failVersion]
    /\ dbcalls' = dbcalls + 1
    /\ UNCHANGED <<itemsTable, itemsVec, clock, storeLog>>
    /\ UNCHANGED fuseVars
    /\ UNCHANGED commentVars
    /\ UNCHANGED stateVars
    /\ UNCHANGED runVars

NextMigrate == Migrate

SpecMigrate == InitMigrate /\ [][NextMigrate]_vars

(***************************************************************************)
(* SpecItems: Store.UpsertItem called again and again on one database      *)
(***************************************************************************)
ItemContents ==
    {[Title |-> "t1", Body |-> "b1", Author |-> "alice", State |-> "open",
      Labels |-> <<"bug">>, Files |-> <<>>, URL |-> "u1"],
     [Title |-> "t2", Body |-> "b2", Author |-> "bob", State |-> "closed",
      Labels |-> NilSlice, Files |-> <<"a.go">>, URL |-> "u2"]}

ItemRecordOf(id, type, number, c, createdAt, updatedAt) ==
    [ID |-> id, Type |-> type, Number |-> number, Title |-> c.Title, Body |-> c.Body,
     Author |-> c.Author, State |-> c.State, Labels |-> c.Labels, Files |-> c.Files,
     URL |-> c.URL, CreatedAt |-> createdAt, UpdatedAt |-> updatedAt]

\* given times lie before the clock's, the zero time asks for time.Now()
ItemRecords ==
    {ItemRecordOf(id, "issue", 1, c, createdAt, updatedAt) :
        id \in {"issue/1", "pr/2"}, c \in ItemContents,
        createdAt \in {0, 1}, updatedAt \in {0, 2}}
    \cup {ItemRecordOf(id, type, number, CHOOSE c \in ItemContents : c.Title = "t1", 0, 0) :
            id \in {" ", "issue/1"}, type \in {"", "issue"}, number \in {0, 1}}

FirstTick == 10

InitItems ==
    /\ EmbedIdle
    /\ IngestIdle
    /\ EngineIdle
    /\ FuseIdle
    /\ CommentsIdle
    /\ StateIdle
    /\ RunIdle
    /\ schemaDB = SchemaAt(latestSchemaVersion, SQLiteModules)
    /\ itemsTable = {}
    /\ itemsVec = <<>>
    /\ clock = FirstTick
    /\ storeLog = NoStoreLog
    /\ dbcall = NoDBCall
    /\ dbcalls = 0

DoUpsertItem ==
    /\ UNCHANGED <<embedVars, ingestVars, engineVars>>
    /\ dbcalls < MaxItemCalls
    /\ \E rec \in ItemRecords, execFails \in BOOLEAN :
          LET r == StoreUpsertItem(itemsTable, rec, clock, execFails) IN
          /\ (execFails => r.err = "upsert item")
          /\ itemsTable' = r.table
          /\ storeLog' =
                IF r.err # "" THEN storeLog
                ELSE [storeLog EXCEPT !.items =
                        SetFn(@, rec.ID,
                              [rec |-> rec,
                               created |-> IF rec.ID \in DOMAIN @ THEN @[rec.ID].created
                                           ELSE IF rec.CreatedAt = 0 THEN clock
                                           ELSE rec.CreatedAt,
                               updated |-> IF rec.UpdatedAt = 0 THEN clock
                                           ELSE rec.UpdatedAt])]
          /\ dbcall' = [op |-> "UpsertItem", err |-> r.err, rec |-> rec, before |-> itemsTable]
    /\ clock' = clock + 1
    /\ dbcalls' = dbcalls + 1
    /\ UNCHANGED <<schemaDB, itemsVec>>
    /\ UNCHANGED fuseVars
    /\ UNCHANGED commentVars
    /\ UNCHANGED stateVars
    /\ UNCHANGED runVars

NextItems == DoUpsertItem

SpecItems == InitItems /\ [][NextItems]_vars

(***************************************************************************)
(* SpecVectors: Store.UpsertVector called again and again on one database  *)
(***************************************************************************)
Embeddings == {NilSlice, <<>>, <<1, 0>>, <<0, 1>>}

InitVectors ==
    /\ EmbedIdle
    /\ IngestIdle
    /\ EngineIdle
    /\ FuseIdle
    /\ CommentsIdle
    /\ StateIdle
    /\ RunIdle
    /\ schemaDB \in {SchemaAt(latestSchemaVersion, modules) : modules \in {{"fts5"}, SQLiteModules}}
    /\ itemsTable = {}
    /\ itemsVec = <<>>
    /\ clock = FirstTick
    /\ storeLog = NoStoreLog
    /\ dbcall = NoDBCall
    /\ dbcalls = 0

\* the plain fallback table replaces rows; only a vec0 table may refuse to
DoUpsertVector ==
    /\ UNCHANGED <<embedVars, ingestVars, engineVars>>
    /\ dbcalls < MaxVectorCalls
    /\ \E id \in {"", "issue/1", "pr/2"}, embedding \in Embeddings,
          replaceRejected \in BOOLEAN, failAt \in VectorFailures :
          LET r == StoreUpsertVector(itemsVec, id, embedding, replaceRejected, failAt) IN
          /\ (replaceRejected => "vec0" \in schemaDB.modules)
          /\ (failAt # "" => r.err # "" /\ r.path # "")
          /\ (failAt \in {"delete", "insert"} => r.path = "delete+insert")
          /\ (replaceRejected => r.path \in {"", "delete+insert"})
          /\ itemsVec' = r.rows
          /\ storeLog' =
                IF r.err = "" THEN [storeLog EXCEPT !.vecs = SetFn(@, id, embedding)]
                ELSE IF r.path = "" THEN storeLog
                ELSE [storeLog EXCEPT !.failed = TRUE]
          /\ dbcall' = [op |-> "UpsertVector", err |-> r.err, id |-> id,
                        embedding |-> embedding, path |-> r.path, before |-> itemsVec]
    /\ dbcalls' = dbcalls + 1
    /\ UNCHANGED <<schemaDB, itemsTable, clock>>
    /\ UNCHANGED fuseVars
    /\ UNCHANGED commentVars
    /\ UNCHANGED stateVars
    /\ UNCHANGED runVars

NextVectors == DoUpsertVector

SpecVectors == InitVectors /\ [][NextVectors]_vars

(***************************************************************************)
(* SpecSearch: Store.SearchVector on databases of up to four vectors       *)
(***************************************************************************)
SearchIDs == <<"issue/1", "issue/2", "pr/1", "pr/2">>

\* at distances 0, 0.4 and 2 from the query <<1, 0>>
StoredEmbeddings == {<<1, 0>>, <<3, 4>>, <<-1, 0>>}

RECURSIVE VecTables(_)
VecTables(k) ==
    IF k = 0 THEN {<<>>}
    ELSE IF k > Len(SearchIDs) THEN VecTables(Len(SearchIDs))
    ELSE LET shorter == VecTables(k - 1) IN
         shorter \cup
         {insertVec(rows, SearchIDs[Len(rows) + 1], SerializeFloat32(e)) :
            rows \in {r \in shorter : Len(r) = k - 1}, e \in StoredEmbeddings}

MetaRow(id) ==
    ItemRow(ItemRecordOf(id, "issue", 1, CHOOSE c \in ItemContents : c.Title = "t1", 0, 0),
            FirstTick, FirstTick)

InitSearch ==
    /\ EmbedIdle
    /\ IngestIdle
    /\ EngineIdle
    /\ FuseIdle
    /\ CommentsIdle
    /\ StateIdle
    /\ RunIdle
    /\ schemaDB \in {SchemaAt(latestSchemaVersion, modules) : modules \in {{"fts5"}, SQLiteModules}}
    /\ \E ids \in SUBSET Range(SearchIDs) :
          /\ Cardinality(ids) >= Len(SearchIDs) - 2
          /\ itemsTable = {MetaRow(id) : id \in ids}
    /\ itemsVec \in VecTables(MaxVectors)
    /\ clock = FirstTick
    /\ storeLog = NoStoreLog
    /\ dbcall = NoDBCall
    /\ dbcalls = 0

DoSearchVector ==
    /\ UNCHANGED <<embedVars, ingestVars, engineVars>>
    /\ dbcalls < MaxSearchCalls
    /\ \E queryEmbedding \in {NilSlice, <<>>, <<1, 0>>}, exclude \in {"", "issue/1"},
          limit \in -1..MaxLimit, queryFails \in BOOLEAN :
          \E r \in StoreSearchVector(itemsTable, itemsVec, queryEmbedding, exclude, limit,
                                     "vec0" \notin schemaDB.modules, queryFails) :
             /\ (queryFails => r.err # "")
             /\ dbcall' = [op |-> "SearchVector", err |-> r.err, query |-> queryEmbedding,
                           exclude |-> exclude, limit |-> limit, requested |-> r.requested,
                           hits |-> r.hits, results |-> r.results, lookups |-> r.lookups]
    /\ dbcalls' = dbcalls + 1
    /\ UNCHANGED <<schemaDB, itemsTable, itemsVec, clock, storeLog>>
    /\ UNCHANGED fuseVars
    /\ UNCHANGED commentVars
    /\ UNCHANGED stateVars
    /\ UNCHANGED runVars

NextSearch == DoSearchVector

SpecSearch == InitSearch /\ [][NextSearch]_vars

(***************************************************************************)
(* SpecEmbed: one EmbedBatch call, request by request                      *)
(***************************************************************************)
ConfiguredRetries == (-1..2) \cup {MaxRetriesExplored}

RetryAfterHeaders ==
    {NoHeader, [kind |-> "seconds", value |-> 0], [kind |-> "seconds", value |-> 7],
     [kind |-> "date", value |-> -5], [kind |-> "date", value |-> 45],
     [kind |-> "text", value |-> 0]}

InitEmbed ==
    /\ FuseIdle
    /\ CommentsIdle
    /\ StateIdle
    /\ RunIdle
    /\ StoreIdle
    /\ IngestIdle
    /\ EngineIdle
    /\ \E cfgMaxRetries \in ConfiguredRetries, texts \in 0..1 :
          embed = [NoEmbed EXCEPT !.pc = "call", !.configured = cfgMaxRetries,
                                  !.maxRetries = normalizedMaxRetries(cfgMaxRetries),
                                  !.texts = texts]

\* EmbedBatch up to the loop: no text, no request
EmbedCall ==
    /\ embed.pc = "call"
    /\ embed' = [embed EXCEPT !.pc = IF embed.texts = 0 THEN "done" ELSE "request"]
    /\ UNCHANGED <<fuseVars, commentVars, stateVars, runVars, storeVars, ingestVars, engineVars>>

\* one pass of the loop up to g.sleep: requestEmbeddings and what follows it
EmbedRequest ==
    /\ embed.pc = "request"
    /\ \E ok \in BOOLEAN, header \in RetryAfterHeaders :
          /\ (ok => header = NoHeader)
          /\ embed' =
                IF ok
                THEN [embed EXCEPT !.pc = "done", !.requests = @ + 1, !.err = "",
                                   !.header = header]
                ELSE IF lastAttempt(embed.attempt, embed.maxRetries)
                THEN [embed EXCEPT !.pc = "done", !.requests = @ + 1, !.failures = @ + 1,
                                   !.err = "embed batch failed", !.header = header]
                ELSE [embed EXCEPT !.pc = "sleep", !.requests = @ + 1, !.failures = @ + 1,
                                   !.header = header,
                                   !.wait = waitBeforeRetry(parseRetryAfter(header), embed.attempt)]
    /\ UNCHANGED <<fuseVars, commentVars, stateVars, runVars, storeVars, ingestVars, engineVars>>

\* g.sleep(wait), attempt++ and the loop's test
EmbedSleep ==
    /\ embed.pc = "sleep"
    /\ embed' = [embed EXCEPT !.sleeps = @ + 1, !.attempt = @ + 1,
                              !.pc = IF embed.attempt + 1 <= embed.maxRetries THEN "request"
                                     ELSE "done",
                              !.err = IF embed.attempt + 1 <= embed.maxRetries THEN @
                                      ELSE "embed batch failed"]
    /\ UNCHANGED <<fuseVars, commentVars, stateVars, runVars, storeVars, ingestVars, engineVars>>

NextEmbed == EmbedCall \/ EmbedRequest \/ EmbedSleep

SpecEmbed == InitEmbed /\ [][NextEmbed]_vars

\* every request returns (the client has a timeout) and every sleep ends
SpecEmbedFair == SpecEmbed /\ WF_vars(NextEmbed)

(***************************************************************************)
(* SpecPR: BuildPRContent as a function of its input                       *)
(***************************************************************************)
PRTitles == {<<>>, <<" ">>, <<"T">>, <<" ", "T", "\n">>}

PRBodies == {<<>>, <<"\n">>, <<"B">>, <<"B", " ", "b">>}

PRFileLists == {<<>>, << <<" ">> >>, << <<"a">> >>, << <<" ", "a", " ">>, <<>>, <<"b">> >>}

PRDiffs == {<<>>, <<" ">>, <<"d", "\n">>, [k \in 1..(MaxDiffChars + DiffExcess) |-> "d"]}

PRDiffModes == {"Include", "SkipDiffKeepFiles", "TitleBodyOnly"}

InitPR ==
    /\ FuseIdle
    /\ CommentsIdle
    /\ StateIdle
    /\ RunIdle
    /\ StoreIdle
    /\ EmbedIdle
    /\ EngineIdle
    /\ \E in \in [Title : PRTitles, Body : PRBodies, Files : PRFileLists, Diff : PRDiffs,
                  Mode : PRDiffModes] :
          ingest = [NoIngest EXCEPT !.in = in]

BuildPR ==
    /\ ~ingest.called
    /\ ingest' = [ingest EXCEPT !.called = TRUE, !.content = BuildPRContentText(ingest.in)]
    /\ UNCHANGED <<fuseVars, commentVars, stateVars, runVars, storeVars, embedVars, engineVars>>

NextPR == BuildPR

SpecPR == InitPR /\ [][NextPR]_vars

(***************************************************************************)
(* SpecEngine: Handle calls on one engine                                  *)
(***************************************************************************)
\* engines: thresholds in hundredths, 0 being the least value the action's
\* inputs may configure; one engine has no Embedder
EngineConfigs ==
    [SimilarityThreshold : {0, 75}, DuplicateThreshold : {0, 92}, MaxResults : {1, MaxLimit}]

Engines ==
    {e \in [Embedder : BOOLEAN, Config : EngineConfigs] :
        e.Embedder \/ e.Config = [SimilarityThreshold |-> 75, DuplicateThreshold |-> 92,
                                  MaxResults |-> 1]}

EngineEvents ==
    [Type : {"issue"}, Number : {1}, Title : {"", "t"}, Body : {" ", "b"},
     Files : {<<>>}, Diff : {""}]
    \cup {[Type |-> "pr", Number |-> 1, Title |-> "t", Body |-> "b", Files |-> <<>>,
           Diff |-> ""]}

\* what the searches may return: hits on other items of the index
EngineVecLists ==
    {<<>>,
     <<[ID |-> "issue/2", Title |-> "v", VecScore |-> 80],
       [ID |-> "pr/2", Title |-> "v", VecScore |-> 50]>>}

EngineFTSLists == {<<>>, <<[ID |-> "pr/2", Title |-> "f", FTSScore |-> 95]>>}

\* the behaviours of the dependencies that Handle on this event can tell
\* apart: a call that is not reached does not fail, and returns nothing
EngineEnvs(e, event) ==
    LET reached == buildEmbeddableContent(event) # <<>> /\ e.Embedder IN
    {env \in [failAt : EngineFailures, emptyEmbedding : BOOLEAN, vec : EngineVecLists,
              fts : EngineFTSLists] :
        /\ ~reached => /\ env.failAt \in {"", "upsert item", "upsert triage comment"}
                       /\ ~env.emptyEmbedding /\ env.vec = <<>> /\ env.fts = <<>>
        /\ env.failAt = "embed" => ~env.emptyEmbedding
        /\ env.failAt \in {"embed", "vector search"} => env.vec = <<>>
        /\ env.failAt \in {"embed", "vector search", "fts search"} => env.fts = <<>>
        /\ env.failAt = "upsert vector" => ~env.emptyEmbedding}

InitEngine ==
    /\ FuseIdle
    /\ CommentsIdle
    /\ StateIdle
    /\ RunIdle
    /\ StoreIdle
    /\ EmbedIdle
    /\ IngestIdle
    /\ \E e \in Engines : eng = [NoEngine EXCEPT !.e = e]

\* one Handle call; a run whose Handle failed does not keep its index, so the
\* calls go on from the index of a call that succeeded
DoHandle ==
    /\ eng.calls < MaxHandleCalls
    /\ ~eng.failed
    /\ \E event \in EngineEvents :
       \E env \in EngineEnvs(eng.e, event) :
       \E out \in EngineFused(eng.e, event, env) :
          LET currentID == BuildItemID(event.Type, event.Number)
              content == buildEmbeddableContent(event)
              r == EngineHandle(eng.e, eng.index, event, env, out)
          IN eng' = [eng EXCEPT
                       !.index = r.index,
                       !.latest = IF r.err = "" THEN [@ EXCEPT ![currentID] = Row(content)]
                                  ELSE @,
                       !.failed = r.err # "",
                       !.calls = @ + 1,
                       !.last = [called |-> TRUE, event |-> event, content |-> content,
                                 failAt |-> env.failAt, emptyEmbedding |-> env.emptyEmbedding,
                                 before |-> eng.index, vec |-> env.vec, fts |-> env.fts,
                                 result |-> r]]
    /\ UNCHANGED <<fuseVars, commentVars, stateVars, runVars, storeVars, embedVars, ingestVars>>

NextEngine == DoHandle

SpecEngine == InitEngine /\ [][NextEngine]_vars

(***************************************************************************)
(* Inputs explored for FuseResults                                         *)
(***************************************************************************)
HitIDs == {"", "issue/1", "pr/2"}

\* source scores, some outside [0,1]
RawScores == {-10, 80, 120}

\* vector hits; one carries no title, so that the FTS hit's title is merged in
VecHits == [ID : HitIDs \ {""}, Title : {"v"}, VecScore : RawScores]
              \cup {[ID |-> "pr/2", Title |-> "", VecScore |-> 80]}
              \cup {[ID |-> "", Title |-> "v", VecScore |-> 80]}

FTSHits == [ID : HitIDs \ {""}, Title : {"f"}, FTSScore : RawScores]
              \cup {[ID |-> "", Title |-> "f", FTSScore |-> 80]}

FuseConfigs ==
    { ZeroFuseConfig,
      [SimilarityThreshold |-> 0, DuplicateThreshold |-> 80, MaxResults |-> 1],
      [SimilarityThreshold |-> 75, DuplicateThreshold |-> 92, MaxResults |-> 0],
      [SimilarityThreshold |-> 150, DuplicateThreshold |-> -5, MaxResults |-> 2] }

ExcludeIDs == {"", "issue/1"}

(***************************************************************************)
(* SpecFuse: FuseResults as a function of its arguments                    *)
(***************************************************************************)
InitFuse ==
    /\ vecResults \in SeqsUpTo(VecHits, MaxVecLen)
    /\ ftsResults \in SeqsUpTo(FTSHits, MaxFtsLen)
    /\ excludeID \in ExcludeIDs
    /\ config \in FuseConfigs
    /\ fused = <<>>
    /\ prevFused = <<>>
    /\ evals = 0
    /\ CommentsIdle
    /\ StateIdle
    /\ RunIdle
    /\ UnitIdle

\* one evaluation of FuseResults on the inputs held in the state
Fuse ==
    /\ evals < MaxEvals
    /\ \E out \in FuseResults(vecResults, ftsResults, excludeID, config) :
          /\ fused' = out
          /\ prevFused' = fused
    /\ evals' = evals + 1
    /\ UNCHANGED <<vecResults, ftsResults, excludeID, config>>
    /\ UNCHANGED commentVars
    /\ UNCHANGED stateVars
    /\ UNCHANGED runVars
    /\ UNCHANGED unitVars

NextFuse == Fuse

SpecFuse == InitFuse /\ [][NextFuse]_vars

(***************************************************************************)
(* Spec: runs of the action, one after the other, on one repository        *)
(***************************************************************************)
BaseEnv ==
    [GITHUB_TOKEN |-> "tkn", GITHUB_EVENT_NAME |-> "issues", GITHUB_REPOSITORY |-> "acme/repo",
     INPUT_SIMILARITY_THRESHOLD |-> 75, INPUT_DUPLICATE_THRESHOLD |-> 92, INPUT_MAX_RESULTS |-> 5]

\* environments a run is started with: the defaults for both event kinds, a
\* zero threshold with a single result, and two the parser rejects
Envs ==
    { BaseEnv,
      [BaseEnv EXCEPT !.GITHUB_EVENT_NAME = "pull_request"],
      [BaseEnv EXCEPT !.INPUT_SIMILARITY_THRESHOLD = 0, !.INPUT_MAX_RESULTS = 1],
      [BaseEnv EXCEPT !.GITHUB_TOKEN = ""],
      [BaseEnv EXCEPT !.INPUT_SIMILARITY_THRESHOLD = 150] }

\* event payloads: issue 1 and pull request 2, with and without text, and a
\* payload without a number
Payloads ==
    { [Number |-> 1, Title |-> "t", Body |-> "b"],
      [Number |-> 1, Title |-> "", Body |-> " "],
      [Number |-> 2, Title |-> "t", Body |-> "b"],
      [Number |-> 0, Title |-> "t", Body |-> "b"] }

\* the platform numbers issues and pull requests from one sequence
PayloadFor(env, payload) ==
    \/ payload.Number = 0
    \/ (env.GITHUB_EVENT_NAME = "issues" /\ payload.Number = 1)
    \/ (env.GITHUB_EVENT_NAME # "issues" /\ payload.Number = 2)

\* the index branch before the first run: absent, or left by earlier runs
InitialBranches == {NoBranch, Branch([f \in {defaultIndexFileName} |-> DBFile({"pr/2"}, {"pr/2"})])}

\* git as the ExecRunner meets it: besides GitCanReport, a fetch of a branch
\* that exists never fails with a missing-ref message
GitReportsTruthfully(branch, failAt, fetchErr) ==
    /\ GitCanReport(branch, failAt)
    /\ (failAt = "git fetch" /\ branch.exists => fetchErr \notin GitMissingRefTexts)

Init ==
    /\ FuseIdle
    /\ comments = [n \in Numbers |-> IF n = 1 THEN <<[ID |-> 1, Body |-> <<"x">>]>> ELSE <<>>]
    /\ nextCommentID = 2
    /\ lastCall = NoCall
    /\ repeated = FALSE
    /\ calls = 0
    /\ manager = DefaultManager
    /\ remote \in InitialBranches
    /\ indexFile = NoFile
    /\ pull = NoPull
    /\ push = NoPush
    /\ RunIdle
    /\ UnitIdle

\* run: parseConfigFromEnv, ParseRepository, StateManager.Pull(indexPath)
RunPull ==
    /\ pc = "idle"
    /\ UNCHANGED unitVars
    /\ runs < MaxRuns
    /\ \E env \in Envs, payload \in Payloads, failAt \in PullFailures :
        \E fetchErr \in FetchTextsAt(failAt) :
          LET c == parseConfigFromEnv(env)
              rp == ParseRepository(env.GITHUB_REPOSITORY)
              m == [Owner |-> rp.owner, Repo |-> rp.repo, Token |-> env.GITHUB_TOKEN,
                    Branch |-> "triage-index"]
              r == Pull(m, indexPath, indexFile, remote.tree, failAt, "", fetchErr)
          IN /\ PayloadFor(env, payload)
             /\ IF c.err # "" \/ rp.err # ""
                THEN /\ failAt = ""
                     /\ run' = [run EXCEPT !.env = env, !.payload = payload,
                                           !.err = IF c.err # "" THEN c.err ELSE rp.err]
                     /\ pc' = "exit"
                     /\ UNCHANGED <<manager, indexFile, pull>>
                ELSE /\ GitReportsTruthfully(remote, failAt, fetchErr)
                     /\ manager' = m
                     /\ pull' = [found |-> r.found, err |-> r.err, cmds |-> r.cmds, dst |-> r.dst,
                                 called |-> TRUE, dstPath |-> indexPath, before |-> indexFile,
                                 tree |-> remote.tree,
                                 failAt |-> failAt, fetchOut |-> "", fetchErr |-> fetchErr]
                     /\ indexFile' = r.dst
                     /\ run' = [run EXCEPT !.env = env, !.payload = payload,
                                           !.err = IF r.err # "" THEN "pull state" ELSE ""]
                     /\ pc' = IF r.err # "" THEN "exit" ELSE "pulled"
    /\ UNCHANGED <<remote, push, handle, durable, runs>>
    /\ UNCHANGED fuseVars
    /\ UNCHANGED commentVars

\* run: store.Open(indexPath), NewClient, ParseEventFile, for a pull request
\* the files and the diff (each kept if its request succeeded, logged as a
\* warning if not), and NewGitHubModelsEmbedder
RunOpen ==
    /\ pc = "pulled"
    /\ UNCHANGED unitVars
    /\ \E filesFailed \in BOOLEAN, diffFailed \in BOOLEAN :
          LET o == Open(indexFile)
              clientErr == NewClient(run.env.GITHUB_TOKEN)
              pe == ParseEventFile(run.env.GITHUB_EVENT_NAME, run.payload)
              embedderErr == NewGitHubModelsEmbedder(run.env.GITHUB_TOKEN)
              fetched == o.err = "" /\ clientErr = "" /\ pe.err = "" /\ pe.event.Type = "pr"
              withFiles == logWarning(run.log, IF filesFailed THEN "fetch pr files" ELSE "")
              withDiff == logWarning(withFiles, IF diffFailed THEN "fetch pr diff" ELSE "")
          IN /\ (~fetched => ~filesFailed /\ ~diffFailed)
             /\ indexFile' = o.db
             /\ IF o.err # ""
                THEN /\ run' = [run EXCEPT !.err = "open store"]
                     /\ pc' = "exit"
                ELSE IF clientErr # ""
                THEN /\ run' = [run EXCEPT !.err = clientErr]
                     /\ pc' = "exit"
                ELSE IF pe.err # ""
                THEN /\ run' = [run EXCEPT !.err = "parse event"]
                     /\ pc' = "exit"
                ELSE /\ run' = [run EXCEPT
                                  !.event = [pe.event EXCEPT
                                               !.Files = IF fetched /\ ~filesFailed
                                                         THEN <<"a.go">> ELSE @,
                                               !.Diff = IF fetched /\ ~diffFailed
                                                        THEN "d" ELSE @],
                                  !.log = withDiff,
                                  !.filesFailed = filesFailed,
                                  !.diffFailed = diffFailed,
                                  !.err = embedderErr]
                     /\ pc' = IF embedderErr # "" THEN "exit" ELSE "opened"
    /\ UNCHANGED <<manager, remote, pull, push, handle, durable, runs>>
    /\ UNCHANGED fuseVars
    /\ UNCHANGED commentVars

\* the Engine run builds from the config
engineOf(env) ==
    [Config |-> [SimilarityThreshold |-> env.INPUT_SIMILARITY_THRESHOLD,
                 DuplicateThreshold |-> env.INPUT_DUPLICATE_THRESHOLD,
                 MaxResults |-> env.INPUT_MAX_RESULTS]]

\* run: Engine.Handle(event)
RunHandle ==
    /\ pc = "opened"
    /\ UNCHANGED unitVars
    /\ \E failAt \in HandleFailures, vec \in StoreVecLists(indexFile),
          fts \in StoreFTSLists(indexFile), fail \in {"", "list", "mutate"},
          applied \in BOOLEAN, lost \in BOOLEAN :
        \E out \in HandleFused(engineOf(run.env), run.event, [vec |-> vec, fts |-> fts]) :
            LET e == engineOf(run.env)
                event == run.event
                env == [failAt |-> failAt, vec |-> vec, fts |-> fts,
                        fail |-> fail, applied |-> applied, lost |-> lost]
                s == searched(event, env)
                r == Handle(e, event, indexFile, comments[event.Number], nextCommentID, env, out)
            IN /\ (failAt # "" => r.err # "" /\ fail = "")
               /\ (fail # "" => r.call.err = fail)
               /\ (applied => fail = "mutate")
               /\ (lost => failAt = "upsert vector")
               /\ (s.vec = vec /\ s.fts = fts)
               /\ vecResults' = s.vec
               /\ ftsResults' = s.fts
               /\ excludeID' = BuildItemID(event.Type, event.Number)
               /\ config' = engineFuseConfig(e)
               /\ fused' = r.fused
               /\ comments' = [comments EXCEPT ![event.Number] = r.comments]
               /\ nextCommentID' = r.nextID
               /\ lastCall' = r.call
               /\ indexFile' = r.db
               /\ handle' = [called |-> TRUE, err |-> r.err,
                             currentID |-> BuildItemID(event.Type, event.Number),
                             fusedRan |-> r.fusedRan, formatterInput |-> r.formatterInput,
                             itemsBefore |-> indexFile.items, failAt |-> failAt,
                             trace |-> r.trace, dbBefore |-> indexFile,
                             commentsBefore |-> comments[event.Number]]
               /\ run' = [run EXCEPT !.err = IF r.err # "" THEN "engine handle" ELSE ""]
               /\ pc' = IF r.err # "" THEN "exit" ELSE "handled"
    /\ UNCHANGED <<prevFused, evals, repeated, calls>>
    /\ UNCHANGED <<manager, remote, pull, push, durable, runs>>

\* run: StateManager.Push(indexPath)
RunPush ==
    /\ pc = "handled"
    /\ UNCHANGED unitVars
    /\ \E failAt \in PushFailures, landed \in BOOLEAN, rmFails \in BOOLEAN :
          LET r == Push(manager, indexPath, indexFile, remote, failAt, landed, rmFails) IN
          /\ (landed => failAt = "git push --force")
          /\ (rmFails => "git rm -rf ." \in {r.cmds[k] : k \in 1..Len(r.cmds)})
          /\ push' = [err |-> r.err, cmds |-> r.cmds, called |-> TRUE, src |-> indexFile,
                      before |-> remote, rmFailed |-> rmFails]
          /\ remote' = r.branch
          /\ durable' = IF r.err = "" THEN durable \cup {handle.currentID} ELSE durable
          /\ run' = [run EXCEPT !.err = IF r.err # "" THEN "push state" ELSE ""]
    /\ pc' = "exit"
    /\ UNCHANGED <<manager, indexFile, pull, handle, runs>>
    /\ UNCHANGED fuseVars
    /\ UNCHANGED commentVars

\* main: run has returned; its error, if any, is logged as a warning and main
\* returns, which ends the process and all it held in memory
RunExit ==
    /\ pc = "exit"
    /\ UNCHANGED unitVars
    /\ pc' = "exited"
    /\ runs' = runs + 1
    /\ run' = [run EXCEPT !.log = logWarning(@, run.err), !.status = exitStatus(run.err)]
    /\ handle' = NoHandle
    /\ pull' = NoPull
    /\ push' = NoPush
    /\ manager' = DefaultManager
    /\ vecResults' = <<>>
    /\ ftsResults' = <<>>
    /\ excludeID' = ""
    /\ config' = ZeroFuseConfig
    /\ fused' = <<>>
    /\ lastCall' = NoCall
    /\ UNCHANGED <<prevFused, evals, comments, nextCommentID, repeated, calls, remote, durable,
                   indexFile>>

\* the next event starts a process of its own on a fresh runner, whose temp
\* directory has no file at indexPath
RunNext ==
    /\ pc = "exited"
    /\ UNCHANGED unitVars
    /\ pc' = "idle"
    /\ run' = [NoRun EXCEPT !.prev = IF run.err = "" THEN "ok" ELSE "failed"]
    /\ indexFile' = NoFile
    /\ UNCHANGED <<manager, remote, pull, push, handle, durable, runs>>
    /\ UNCHANGED fuseVars
    /\ UNCHANGED commentVars

Next == RunPull \/ RunOpen \/ RunHandle \/ RunPush \/ RunExit \/ RunNext

Spec == Init /\ [][Next]_vars

(***************************************************************************)
(* Properties of UpsertTriageComment (checked under SpecComment)           *)
(***************************************************************************)
Called == lastCall.number # 0

\* positions of the managed comments the latest call was made against
ManagedBefore == {i \in 1..Len(lastCall.before) : ContainsMarker(lastCall.before[i].Body)}

ExistsBefore == ManagedBefore # {}

ExistingBefore == lastCall.before[CHOOSE i \in ManagedBefore : \A j \in ManagedBefore : i <= j]

Trimmed(b) ==
    LET keep == {i \in 1..Len(b) : b[i] \notin {" ", "\n"}} IN
    IF keep = {} THEN <<>>
    ELSE LET lo == CHOOSE i \in keep : \A j \in keep : i <= j
             hi == CHOOSE i \in keep : \A j \in keep : j <= i
         IN [k \in 1..(hi - lo + 1) |-> b[lo + k - 1]]

CandidateEmpty == Trimmed(lastCall.body) = <<>>

\* the candidate with the marker as its first line
WithMarker(b) ==
    IF Trimmed(b)[1] = "<!-- triage-bot:v1 -->" THEN Trimmed(b)
    ELSE <<"<!-- triage-bot:v1 -->", "\n">> \o Trimmed(b)

BodyEquivalent ==
    ExistsBefore /\ ~CandidateEmpty /\ Trimmed(ExistingBefore.Body) = Trimmed(WithMarker(lastCall.body))

\* the call ended as `action`, or its one mutating request returned an error
Outcome(action) ==
    \/ lastCall.action = action /\ lastCall.err = ""
    \/ lastCall.action = "" /\ lastCall.err = "mutate" /\ action # "noop"

\* C2: the action depends only on (a managed comment exists, the candidate is
\* empty after trimming, existing and candidate are equal after trimming):
\* noop without request, delete, create with the marker first, update, noop.
C2_ReconcileDecision ==
    (Called /\ lastCall.err # "list") =>
        /\ (~ExistsBefore /\ CandidateEmpty) =>
              (lastCall.api = <<>> /\ Outcome("noop"))
        /\ (ExistsBefore /\ CandidateEmpty) =>
              /\ Len(lastCall.api) = 1
              /\ lastCall.api[1].op = "delete"
              /\ lastCall.api[1].id = ExistingBefore.ID
              /\ Outcome("deleted")
        /\ (~ExistsBefore /\ ~CandidateEmpty) =>
              /\ Len(lastCall.api) = 1
              /\ lastCall.api[1].op = "create"
              /\ lastCall.api[1].body = WithMarker(lastCall.body)
              /\ Outcome("created")
        /\ (ExistsBefore /\ ~CandidateEmpty /\ ~BodyEquivalent) =>
              /\ Len(lastCall.api) = 1
              /\ lastCall.api[1].op = "update"
              /\ lastCall.api[1].id = ExistingBefore.ID
              /\ lastCall.api[1].body = WithMarker(lastCall.body)
              /\ Outcome("updated")
        /\ BodyEquivalent =>
              (lastCall.api = <<>> /\ Outcome("noop"))

\* a candidate that differs from the managed comment only in white space and
\* the missing marker line is left alone
C2_Witness ==
    /\ Called
    /\ BodyEquivalent
    /\ ExistingBefore.Body # WithMarker(lastCall.body)
    /\ lastCall.action = "noop"

\* C3: an item that starts with at most one comment containing the marker
\* has at most one after any sequence of calls, failed ones included.
C3_AtMostOneManagedComment == \A n \in Numbers : ManagedCount(comments[n]) <= 1

\* the managed comment was created by a call that followed another call,
\* next to comments of other authors
C3_Witness ==
    /\ calls >= 2
    /\ lastCall.err = "mutate"
    /\ Len(lastCall.api) = 1
    /\ lastCall.api[1].op = "create"
    /\ Len(comments[1]) > Len(lastCall.before)
    /\ Len(comments[1]) >= 2
    /\ ManagedCount(comments[1]) = 1

EffSimilarityThreshold ==
    IF config = ZeroFuseConfig THEN defaultSimilarityThreshold
    ELSE IF config.SimilarityThreshold < 0 THEN 0
    ELSE IF config.SimilarityThreshold > 100 THEN 100 ELSE config.SimilarityThreshold

EffDuplicateThreshold ==
    IF config = ZeroFuseConfig THEN defaultDuplicateThreshold
    ELSE IF config.DuplicateThreshold < 0 THEN 0
    ELSE IF config.DuplicateThreshold > 100 THEN 100 ELSE config.DuplicateThreshold

EffMaxResults == IF config.MaxResults <= 0 THEN defaultMaxResults ELSE config.MaxResults

FusedIDs == {fused[i].ID : i \in 1..Len(fused)}

\* C6: every returned result has displaySimilarity = max(vecScore, ftsScore)
\* within [0,1] and at or above the effective similarity threshold, is flagged
\* duplicate exactly when at or above the effective duplicate threshold, ids
\* are unique and the list has at most maxResults (default 5) entries.
C6_FusedResultsWellFormed ==
    evals > 0 =>
        /\ Len(fused) <= EffMaxResults
        /\ \A i, j \in 1..Len(fused) : i # j => fused[i].ID # fused[j].ID
        /\ \A i \in 1..Len(fused) :
              LET r == fused[i] IN
              /\ r.DisplaySimilarity = MaxOf(r.VecScore, r.FTSScore)
              /\ r.DisplaySimilarity >= 0
              /\ r.DisplaySimilarity <= 100
              /\ r.DisplaySimilarity >= EffSimilarityThreshold
              /\ r.IsDuplicate <=> (r.DisplaySimilarity >= EffDuplicateThreshold)

\* an out-of-range source score was clamped, one result sits exactly on the
\* duplicate threshold and the list was cut to maxResults
C6_Witness ==
    /\ evals > 0
    /\ Len(fused) = 1
    /\ config.MaxResults = 1
    /\ fused[1].DisplaySimilarity = EffDuplicateThreshold
    /\ fused[1].IsDuplicate
    /\ \E i \in 1..Len(vecResults) : vecResults[i].VecScore > 100 /\ vecResults[i].ID = "pr/2"
    /\ \E i \in 1..Len(vecResults) : vecResults[i].ID = "issue/1"
    /\ excludeID = ""

\* 1-based position of the first hit with this id, 0 when there is none
FirstIndex(hits, id) ==
    IF \E i \in 1..Len(hits) : hits[i].ID = id
    THEN CHOOSE i \in 1..Len(hits) : hits[i].ID = id /\ \A j \in 1..(i - 1) : hits[j].ID # id
    ELSE 0

\* RRFScale / (60 + rank + 1) for the first occurrence, 0 when absent
ExpectedTerm(hits, id) ==
    IF FirstIndex(hits, id) = 0 THEN 0 ELSE RRFScale \div (60 + (FirstIndex(hits, id) - 1) + 1)

ExpectedRRF(id) == ExpectedTerm(vecResults, id) + ExpectedTerm(ftsResults, id)

Clamped(v) == IF v < 0 THEN 0 ELSE IF v > 100 THEN 100 ELSE v

ExpectedDisplay(id) ==
    MaxOf(IF FirstIndex(vecResults, id) = 0 THEN 0
          ELSE Clamped(vecResults[FirstIndex(vecResults, id)].VecScore),
          IF FirstIndex(ftsResults, id) = 0 THEN 0
          ELSE Clamped(ftsResults[FirstIndex(ftsResults, id)].FTSScore))

\* ids that survive exclusion and the similarity threshold
ThresholdedIDs ==
    {id \in ({vecResults[i].ID : i \in 1..Len(vecResults)}
                \cup {ftsResults[i].ID : i \in 1..Len(ftsResults)}) \ {"", excludeID} :
        ExpectedDisplay(id) >= EffSimilarityThreshold}

\* a precedes b: rrfScore descending, then displaySimilarity descending, then id ascending
Precedes(a, b) ==
    \/ ExpectedRRF(a) > ExpectedRRF(b)
    \/ ExpectedRRF(a) = ExpectedRRF(b) /\ ExpectedDisplay(a) > ExpectedDisplay(b)
    \/ ExpectedRRF(a) = ExpectedRRF(b) /\ ExpectedDisplay(a) = ExpectedDisplay(b) /\ IDLess(a, b)

MinOf(a, b) == IF a < b THEN a ELSE b

\* C7: the output is the first maxResults entries of the thresholded items
\* ordered by rrfScore descending, then displaySimilarity descending, then id
\* ascending, rrfScore being the sum over both lists of 1/(60 + rank + 1) at
\* the id's first occurrence.
C7_OrderedByRRF ==
    evals > 0 =>
        /\ FusedIDs \subseteq ThresholdedIDs
        /\ Len(fused) = MinOf(EffMaxResults, Cardinality(ThresholdedIDs))
        /\ \A i \in 1..Len(fused) : fused[i].RRFScore = ExpectedRRF(fused[i].ID)
        /\ \A i, j \in 1..Len(fused) : i < j => Precedes(fused[i].ID, fused[j].ID)
        /\ \A i \in 1..Len(fused) : \A id \in ThresholdedIDs \ FusedIDs : Precedes(fused[i].ID, id)

\* an item found by both backends precedes one with a higher displaySimilarity
\* found by one only
C7_Witness ==
    /\ evals > 0
    /\ Len(fused) = 2
    /\ fused[1].DisplaySimilarity < fused[2].DisplaySimilarity
    /\ FirstIndex(vecResults, fused[1].ID) = 2
    /\ FirstIndex(ftsResults, fused[1].ID) = 1
    /\ FirstIndex(ftsResults, fused[2].ID) = 0

\* C8: two evaluations of FuseResults on identical arguments return the same
\* list, whatever the map iteration order and the unstable sort do.
C8_FusionDeterministic == evals >= 2 => fused = prevFused

\* evaluated twice on two items that tie on rrfScore and displaySimilarity,
\* so that only the id comparison fixes their order
C8_Witness ==
    /\ evals >= 2
    /\ Len(fused) = 2
    /\ fused[1].RRFScore = fused[2].RRFScore
    /\ fused[1].DisplaySimilarity = fused[2].DisplaySimilarity

(***************************************************************************)
(* Properties of StateManager.Pull (checked under SpecState)               *)
(***************************************************************************)
\* the two texts the first-run signal is recognised by, in any letter case
MissingBranchText(t) ==
    t \in { "fatal: couldn't find remote ref triage-index",
            "fatal: Couldn't find remote ref triage-index",
            "fatal: unknown revision or path not in the working tree" }

PullIdentityOK == ~Blank(manager.Token) /\ ~Blank(manager.Owner) /\ ~Blank(manager.Repo)

PullFirstRunSignal ==
    /\ pull.failAt = "git fetch"
    /\ (MissingBranchText(pull.fetchOut) \/ MissingBranchText(pull.fetchErr))

PullGitStepFailed ==
    \/ pull.failAt \in {"git init", "git remote add", "git fetch", "git checkout"}
    \/ (pull.failAt \in {"", "stat", "copy"} /\ defaultIndexFileName \notin DOMAIN pull.tree)

\* C10: Pull answers (false, nil) and leaves dstPath alone when the fetch
\* fails with a missing-branch text; answers (false, error) when any other
\* git step fails; answers (true, nil) only after all four git commands ran
\* and dstPath holds the index.db of the fetched tree; and with a blank token,
\* owner or repo it fails before running any command.
C10_PullOutcomes ==
    pull.called =>
        /\ (~PullIdentityOK =>
                /\ ~pull.found
                /\ pull.err # ""
                /\ pull.cmds = <<>>
                /\ pull.dst = pull.before)
        /\ (PullIdentityOK /\ ~Blank(pull.dstPath) /\ PullFirstRunSignal =>
                /\ ~pull.found
                /\ pull.err = ""
                /\ pull.dst = pull.before)
        /\ (PullIdentityOK /\ ~Blank(pull.dstPath) /\ PullGitStepFailed /\ ~PullFirstRunSignal =>
                /\ ~pull.found
                /\ pull.err # "")
        /\ (pull.found =>
                /\ pull.err = ""
                /\ pull.cmds = <<"git init", "git remote add", "git fetch", "git checkout">>
                /\ defaultIndexFileName \in DOMAIN pull.tree
                /\ pull.dst = pull.tree[defaultIndexFileName])

\* a first-run signal met while dstPath already holds a database
C10_Witness ==
    /\ pull.called
    /\ PullIdentityOK
    /\ PullFirstRunSignal
    /\ ~pull.found
    /\ pull.err = ""
    /\ pull.before.kind = "db"
    /\ pull.before.items # {}
    /\ pull.dst = pull.before

(***************************************************************************)
(* Properties of a run and of Engine.Handle (checked under Spec)           *)
(***************************************************************************)
\* ids at the positions of a result list
IDsOf(list) == {list[i].ID : i \in 1..Len(list)}

\* C1: whatever lists the store returned, the current item among them or
\* not, neither the list FuseResults produced inside Handle nor the list
\* handed to the formatter has an entry whose id is
\* BuildItemID(event.Type, event.Number).
C1_CurrentItemNeverFused ==
    handle.called =>
        /\ BuildItemID(run.event.Type, run.event.Number) \notin IDsOf(fused)
        /\ BuildItemID(run.event.Type, run.event.Number) \notin IDsOf(handle.formatterInput)

\* the store returned the current item and another item survived the fusion
C1_Witness ==
    /\ handle.called
    /\ handle.err = ""
    /\ handle.currentID \in IDsOf(vecResults) \cup IDsOf(ftsResults)
    /\ fused # <<>>
    /\ handle.formatterInput = fused

\* Handle returned nil and no fused result survived the thresholds
HandledWithoutMatches == handle.called /\ handle.err = "" /\ fused = <<>>

C9_IndexDurableAcrossRuns ==
    (pc = "pulled" /\ durable # {}) =>
        /\ pull.found
        /\ indexFile.kind = "db"
        /\ durable \subseteq indexFile.items

\* a run pulls the index after a completed run and a failed one
C9_Witness ==
    /\ pc = "pulled"
    /\ durable # {}
    /\ run.prev = "failed"
    /\ pull.found
    /\ durable \subseteq indexFile.items

(***************************************************************************)
(* Properties of StateManager.Push (checked under SpecState)               *)
(***************************************************************************)
\* C11: after a successful Push the branch exists, its tip has no ancestor,
\* the tip's tree is exactly index.db with the content srcPath had, whatever
\* the branch held before, and the last command run was the forced push;
\* this is so whether or not `git rm -rf .` failed.
C11_PushLeavesSingleIndexFile ==
    (push.called /\ push.err = "") =>
        /\ remote.exists
        /\ remote.history = 0
        /\ DOMAIN remote.tree = {defaultIndexFileName}
        /\ remote.tree[defaultIndexFileName] = push.src
        /\ push.cmds[Len(push.cmds)] = "git push --force"
        /\ "git rm -rf ." \in {push.cmds[k] : k \in 1..Len(push.cmds)}

\* a push over a branch with history and a second file, with `git rm` failing
C11_Witness ==
    /\ push.called
    /\ push.err = ""
    /\ push.rmFailed
    /\ push.before.exists
    /\ push.before.history > 0
    /\ Cardinality(DOMAIN push.before.tree) > 1
    /\ push.src.items # {}
    /\ remote.tree[defaultIndexFileName] = push.src

(***************************************************************************)
(* Properties of main (checked under Spec)                                 *)
(***************************************************************************)
WarningLine(text) == <<"::warning::", text>>

LogLines == {run.log[k] : k \in 1..Len(run.log)}

\* the errors run returns, one per step that can fail
RunErrors ==
    {"missing required env", "INPUT_MAX_RESULTS must be between 1 and 20",
     "INPUT_SIMILARITY_THRESHOLD must be between 0 and 1",
     "INPUT_DUPLICATE_THRESHOLD must be between 0 and 1", "invalid repository format",
     "pull state", "open store", "create github client", "parse event", "create embedder",
     "engine handle", "push state"}

\* C12: the process always ends with status 0; when run returned an error the
\* last line printed is that error as a `::warning::` line; a failed request
\* for the pull request's files or diff is printed as a warning as well and
\* the run goes on to Handle; nothing but `::warning::` lines reports an error.
C12_ErrorsBecomeWarnings ==
    /\ (pc = "exited" =>
            /\ run.status = 0
            /\ run.err \in RunErrors \cup {""}
            /\ (run.err # "" => /\ run.log # <<>>
                                /\ run.log[Len(run.log)] = WarningLine(run.err))
            /\ (run.err = "" => \A k \in 1..Len(run.log) :
                                    run.log[k][2] \in {"fetch pr files", "fetch pr diff"}))
    /\ (pc # "exited" => run.status = -1)
    /\ (run.filesFailed => WarningLine("fetch pr files") \in LogLines)
    /\ (run.diffFailed => WarningLine("fetch pr diff") \in LogLines)
    /\ (run.filesFailed \/ run.diffFailed =>
            /\ pc \in {"opened", "handled", "exit", "exited"}
            /\ run.err \in {"", "engine handle", "push state"})
    /\ \A k \in 1..Len(run.log) : run.log[k][1] = "::warning::"

\* a run that lost the files of its pull request, went on, and failed in Push
C12_Witness ==
    /\ pc = "exited"
    /\ run.status = 0
    /\ run.filesFailed
    /\ run.err = "push state"
    /\ run.log = <<WarningLine("fetch pr files"), WarningLine("push state")>>

(***************************************************************************)
(* Properties of Engine.Handle on an embedder failure (checked under Spec) *)
(***************************************************************************)
EmbedFailed ==
    /\ handle.called
    /\ buildEmbeddableContent(run.event) # <<>>
    /\ handle.failAt = "embed"

OneRowPerVersion(db) ==
    /\ Len(db.versions) = latestSchemaVersion
    /\ \A v \in 1..latestSchemaVersion : CountRows(db.versions, v) = 1

NoStatementFailed(c) ==
    \/ c.failAt = ""
    \/ c.failAt \in Range(MigrationSteps) /\ c.failVersion <= currentSchemaVersion(c.before)

C14_ApplyMigrationsIdempotent ==
    dbcall.op = "ApplyMigrations" =>
        /\ (NoStatementFailed(dbcall) => dbcall.err = "")
        /\ (dbcall.err = "" => OneRowPerVersion(schemaDB))
        /\ (currentSchemaVersion(dbcall.before) = latestSchemaVersion => schemaDB = dbcall.before)

C14_Witness ==
    /\ dbcalls = MaxMigrateCalls
    /\ dbcall.op = "ApplyMigrations"
    /\ dbcall.err = ""
    /\ OneRowPerVersion(dbcall.before)
    /\ schemaDB = dbcall.before

(***************************************************************************)
(* C15: after any sequence of successful UpsertItem calls the items table  *)
(* holds exactly one row per distinct id; the row carries the title, body, *)
(* author, state, labels, files and url of the last call for the id, the   *)
(* created_at written by the first call for it and the updated_at of the   *)
(* last call.                                                              *)
(***************************************************************************)
RowsOf(id) == {r \in itemsTable : r.id = id}

CarriesLastCall(r, l) ==
    /\ r.title = l.rec.Title
    /\ r.body = l.rec.Body
    /\ r.author = l.rec.Author
    /\ r.state = l.rec.State
    /\ r.labels = jsonMarshal(l.rec.Labels)
    /\ r.files = jsonMarshal(l.rec.Files)
    /\ r.url = l.rec.URL
    /\ r.created_at = formatTime(l.created)
    /\ r.updated_at = formatTime(l.updated)

C15_OneRowPerIDLastWins ==
    /\ {r.id : r \in itemsTable} = DOMAIN storeLog.items
    /\ \A id \in DOMAIN storeLog.items :
          /\ Cardinality(RowsOf(id)) = 1
          /\ \A r \in RowsOf(id) : CarriesLastCall(r, storeLog.items[id])

C15_Witness ==
    /\ dbcall.op = "UpsertItem"
    /\ dbcall.err = ""
    /\ RowsOf(dbcall.rec.ID) \cap dbcall.before = {}
    /\ \E old \in dbcall.before :
          /\ old.id = dbcall.rec.ID
          /\ old.title # dbcall.rec.Title
          /\ \E r \in RowsOf(dbcall.rec.ID) :
                r.created_at = old.created_at /\ r.updated_at # old.updated_at
    /\ Cardinality(itemsTable) = 2

(***************************************************************************)
(* C16: after any sequence of successful UpsertVector calls, on the        *)
(* INSERT OR REPLACE path and on the delete-then-insert path alike,        *)
(* items_vec holds exactly one row per distinct id, and the row holds the  *)
(* bytes of the last vector upserted for the id; a call with an empty id   *)
(* or an empty vector fails and leaves items_vec unchanged.                *)
(***************************************************************************)
VecRowsOf(id) == {k \in 1..Len(itemsVec) : itemsVec[k].id = id}

C16_OneVectorPerIDLastWins ==
    /\ ~storeLog.failed =>
          /\ VecIDs(itemsVec) = DOMAIN storeLog.vecs
          /\ \A id \in DOMAIN storeLog.vecs :
                /\ Cardinality(VecRowsOf(id)) = 1
                /\ \A k \in VecRowsOf(id) :
                      itemsVec[k].embedding = SerializeFloat32(storeLog.vecs[id])
    /\ (dbcall.op = "UpsertVector" /\ (dbcall.id = "" \/ VecLen(dbcall.embedding) = 0)) =>
          (dbcall.err # "" /\ itemsVec = dbcall.before)

C16_Witness ==
    /\ dbcall.op = "UpsertVector"
    /\ dbcall.err = ""
    /\ dbcall.path = "delete+insert"
    /\ ~storeLog.failed
    /\ \E k \in 1..Len(dbcall.before) :
          /\ dbcall.before[k].id = dbcall.id
          /\ dbcall.before[k].embedding # SerializeFloat32(dbcall.embedding)
    /\ Cardinality(VecIDs(itemsVec)) = 2

(***************************************************************************)
(* C17: SearchVector(query, excludeId, limit) returns at most limit        *)
(* results, in the order of the candidate hits (ascending distance),       *)
(* holding neither excludeId nor an id without a row in items, each with   *)
(* vecScore = clamp01(1 - distance) in [0,1]; it asks for 3 x limit        *)
(* candidates and stops hydrating once limit results are collected; with   *)
(* an empty query or limit <= 0 it returns an empty list and no error.     *)
(***************************************************************************)
Hydratable(c, hit) == hit.ID # c.exclude /\ \E r \in itemsTable : r.id = hit.ID

\* the hits that can be hydrated, in the candidates' order
HydratableHits(c) == SelectSeq(c.hits, LAMBDA hit : Hydratable(c, hit))

\* position in the candidates of the hit that filled the limit (the last one if none did)
StopsAt(c) ==
    IF Len(HydratableHits(c)) < c.limit THEN Len(c.hits)
    ELSE CHOOSE k \in 1..Len(c.hits) :
            Len(SelectSeq(SubSeq(c.hits, 1, k), LAMBDA hit : Hydratable(c, hit))) = c.limit
            /\ Hydratable(c, c.hits[k])

SearchedOK(c) == c.op = "SearchVector" /\ c.err = "" /\ VecLen(c.query) > 0 /\ c.limit > 0

C17_SearchVectorContract ==
    /\ SearchedOK(dbcall) =>
          LET want == Take(HydratableHits(dbcall), dbcall.limit) IN
          /\ Len(dbcall.results) <= dbcall.limit
          /\ Len(dbcall.results) = Len(want)
          /\ \A k \in 1..Len(want) :
                /\ dbcall.results[k].ID = want[k].ID
                /\ dbcall.results[k].Distance = want[k].Distance
                /\ dbcall.results[k].VecScore = clamp01(100 - want[k].Distance)
                /\ dbcall.results[k].VecScore \in 0..100
                /\ dbcall.results[k].ID # dbcall.exclude
                /\ \E r \in itemsTable : r.id = dbcall.results[k].ID
          /\ \A i, j \in 1..Len(dbcall.results) :
                i < j => dbcall.results[i].Distance <= dbcall.results[j].Distance
          /\ dbcall.requested = 3 * dbcall.limit
          /\ Len(dbcall.hits) <= 3 * dbcall.limit
          /\ dbcall.lookups =
                Cardinality({k \in 1..StopsAt(dbcall) : dbcall.hits[k].ID # dbcall.exclude})
    /\ (dbcall.op = "SearchVector" /\ (VecLen(dbcall.query) = 0 \/ dbcall.limit <= 0)) =>
          (dbcall.results = <<>> /\ dbcall.err = "" /\ dbcall.requested = 0)

C17_Witness ==
    /\ SearchedOK(dbcall)
    /\ dbcall.limit = 1
    /\ Len(itemsVec) > 3 * dbcall.limit
    /\ Len(dbcall.hits) = 3
    /\ Len(dbcall.results) = 1
    /\ dbcall.results[1].ID # dbcall.hits[1].ID
    /\ dbcall.lookups < Cardinality({k \in 1..Len(dbcall.hits) : dbcall.hits[k].ID # dbcall.exclude})
    /\ dbcall.results[1].VecScore \in 1..99

(***************************************************************************)
(* C18: EmbedBatch's retry loop always terminates: it issues at most       *)
(* maxRetries + 1 requests (exactly one when maxRetries <= 0), stops at    *)
(* the first successful response, waits exactly once between two           *)
(* consecutive attempts and never after the last one, and returns an error *)
(* if and only if all maxRetries + 1 attempts failed.                      *)
(***************************************************************************)
EmbedDone == embed.pc = "done" /\ embed.texts > 0

RetryLoopBounded ==
    /\ embed.requests <= embed.maxRetries + 1
    /\ (embed.configured <= 0 => embed.requests <= 1)
    /\ embed.requests - embed.failures \in {0, 1}
    /\ (embed.requests - embed.failures = 1 => embed.pc = "done")
    /\ (embed.pc = "request" => embed.sleeps = embed.requests)
    /\ EmbedDone =>
          /\ embed.requests >= 1
          /\ embed.sleeps = embed.requests - 1
          /\ (embed.err # "") = (embed.failures = embed.maxRetries + 1)
          /\ (embed.err = "") = (embed.requests - embed.failures = 1)

C18_RetryLoopTerminates == [](RetryLoopBounded) /\ <>(embed.pc = "done")

C18_Witness ==
    /\ EmbedDone
    /\ embed.maxRetries = 2
    /\ embed.requests = 3
    /\ embed.sleeps = 2
    /\ embed.err = ""

(***************************************************************************)
(* C19: the wait before the retry that follows failed attempt number a     *)
(* (0-based) equals the Retry-After value when the failed response carried *)
(* one, and otherwise min(2^a, 30) seconds, for every attempt index a a    *)
(* configured maxRetries can reach.  A response carries a Retry-After      *)
(* value when the header gives a positive delay.                           *)
(***************************************************************************)
RetryAfterValue(h) == IF h.kind \in {"seconds", "date"} /\ h.value > 0 THEN h.value ELSE 0

\* min(2^a, 30): 2^a passes 30 at a = 5
CappedPowerOfTwo(a) == IF a >= 5 THEN 30 ELSE 2 ^ a

ExpectedWait(h, a) == IF RetryAfterValue(h) > 0 THEN RetryAfterValue(h) ELSE CappedPowerOfTwo(a)

C19_WaitIsRetryAfterOrCappedBackoff ==
    embed.pc = "sleep" => embed.wait = ExpectedWait(embed.header, embed.attempt)

\* the same below the attempt whose shift reaches the sign bit
C19_HoldsBelowSignBit ==
    (embed.pc = "sleep" /\ embed.attempt < IntBits - 1) =>
        embed.wait = ExpectedWait(embed.header, embed.attempt)

C19_ShiftReachesSignBit ==
    /\ embed.pc = "sleep"
    /\ embed.attempt = IntBits - 1
    /\ embed.header = NoHeader
    /\ embed.wait = 1

(***************************************************************************)
(* C20: for every pull-request input with a non-empty title BuildPRContent *)
(* returns the blank-line-joined sequence, in this order, of exactly the   *)
(* non-empty sections among "PR: {title}", "Description: {body}", "Files   *)
(* changed: {normalized files}" (never in TITLE_BODY_ONLY) and "Diff       *)
(* summary: {diff cut to 4000 code points}" (only in INCLUDE); with an     *)
(* empty title and a non-empty body it returns the body alone, and with    *)
(* both empty the empty text.  Empty is empty once trimmed.                *)
(*                                                                         *)
(* As stated this fails when the body is empty: the code then returns      *)
(* "PR: {title}" alone, whatever the files, the diff and the mode.  The    *)
(* amended statement keeps the four sections for inputs whose title and    *)
(* body are both non-empty, and gives "PR: {title}" alone when only the    *)
(* body is empty.                                                          *)
(***************************************************************************)
TitleOf(in) == TrimSpace(in.Title)

BodyOf(in) == TrimSpace(in.Body)

FileNamesOf(in) == SelectSeq([k \in 1..Len(in.Files) |-> TrimSpace(in.Files[k])], LAMBDA f : f # <<>>)

TitleSection(in) == <<"PR: ">> \o TitleOf(in)

DescriptionSection(in) == IF BodyOf(in) = <<>> THEN <<>> ELSE <<"Description: ">> \o BodyOf(in)

FilesSection(in) ==
    IF in.Mode = "TitleBodyOnly" \/ FileNamesOf(in) = <<>> THEN <<>>
    ELSE <<"Files changed: ">> \o Join(FileNamesOf(in), ", ")

DiffSection(in) ==
    IF in.Mode # "Include" \/ TrimSpace(in.Diff) = <<>> THEN <<>>
    ELSE <<"Diff summary: ">> \o Take(TrimSpace(in.Diff), MaxDiffChars)

NonEmptySections(in) ==
    SelectSeq(<<TitleSection(in), DescriptionSection(in), FilesSection(in), DiffSection(in)>>,
              LAMBDA section : section # <<>>)

EmptyTitleRules(in, content) ==
    /\ (TitleOf(in) = <<>> /\ BodyOf(in) # <<>>) => content = BodyOf(in)
    /\ (TitleOf(in) = <<>> /\ BodyOf(in) = <<>>) => content = <<>>

EngineOps(trace) == [i \in 1..Len(trace) |-> trace[i].op]

EngineLastID == BuildItemID(eng.last.event.Type, eng.last.event.Number)

EngineSucceededOnContent ==
    eng.last.called /\ eng.last.result.err = "" /\ eng.last.content # <<>>

\* every search and upsert of the trace was given id
EngineCallsUse(trace, id) ==
    \A i \in 1..Len(trace) :
        trace[i].op \in {"SearchVector", "SearchFTS", "UpsertItem", "UpsertVector"}
            => trace[i].id = id

\* C21, as stated: a Handle that succeeds on a non-empty content calls Embed,
\* SearchVector, SearchFTS, UpsertItem, UpsertVector and UpsertTriageComment,
\* once each and in this order.
C21_SuccessCallsAllSixInOrder ==
    EngineSucceededOnContent =>
        EngineOps(eng.last.result.trace) =
            <<"Embed", "SearchVector", "SearchFTS", "UpsertItem", "UpsertVector",
              "UpsertTriageComment">>

\* C21: a Handle that succeeds on a non-empty content for which the embedder
\* returned a vector with at least one component calls Embed, SearchVector,
\* SearchFTS, UpsertItem, UpsertVector and UpsertTriageComment, once each and
\* in this order; when the returned vector has no component the calls are the
\* same without UpsertVector.  Searches and upserts are given currentID, the
\* searches are given maxResults() as limit, and the vector upserted is the
\* one Embed returned.
C21_SuccessCallsInOrderWhenEmbedded ==
    EngineSucceededOnContent =>
        LET trace == eng.last.result.trace
            embedding == eng.last.result.embedding
        IN /\ EngineOps(trace) =
                 IF Len(embedding) > 0
                 THEN <<"Embed", "SearchVector", "SearchFTS", "UpsertItem", "UpsertVector",
                        "UpsertTriageComment">>
                 ELSE <<"Embed", "SearchVector", "SearchFTS", "UpsertItem",
                        "UpsertTriageComment">>
           /\ EngineCallsUse(trace, EngineLastID)
           /\ trace[1].arg = eng.last.content
           /\ trace[2].arg = embedding /\ trace[2].limit = maxResults(eng.e)
           /\ trace[3].arg = eng.last.content /\ trace[3].limit = maxResults(eng.e)
           /\ trace[4].arg = eng.last.content
           /\ Len(embedding) > 0 => trace[5].arg = embedding
           /\ eng.index.items[EngineLastID] = Row(eng.last.content)
           /\ Len(embedding) > 0 => eng.index.vecs[EngineLastID] = Row(embedding)

\* a second Handle has succeeded on a content, its vector stored, with hits
\* returned by both searches
C21_Witness ==
    /\ EngineSucceededOnContent
    /\ eng.calls = 2
    /\ Len(eng.last.result.embedding) > 0
    /\ Len(eng.last.result.trace) = 6
    /\ eng.last.vec # <<>> /\ eng.last.fts # <<>>
    /\ eng.last.before.items[EngineLastID].row

(***************************************************************************)
(* C22: Handle on an event whose embeddable content is empty               *)
(***************************************************************************)
\* C22: on an empty or blank content Handle calls neither Embed nor
\* SearchVector nor SearchFTS nor UpsertVector; it upserts the item and then
\* reconciles the comment with an empty body, leaves the vector rows as they
\* were, and fails only if one of these two calls fails, whether or not an
\* Embedder is set.
C22_EmptyContentIndexesItemOnly ==
    (eng.last.called /\ eng.last.content = <<>>) =>
        LET r == eng.last.result IN
        /\ r.err = (IF eng.last.failAt \in {"upsert item", "upsert triage comment"}
                    THEN eng.last.failAt ELSE "")
        /\ \A i \in 1..Len(r.trace) :
              r.trace[i].op \notin {"Embed", "SearchVector", "SearchFTS", "UpsertVector"}
        /\ r.trace[1] = EngineCall("UpsertItem", EngineLastID, 0, <<>>)
        /\ r.index.vecs = eng.last.before.vecs
        /\ r.fused = <<>>
        /\ r.err # "upsert item" =>
              /\ r.trace = <<EngineCall("UpsertItem", EngineLastID, 0, <<>>),
                             EngineCall("UpsertTriageComment", "", 0, <<>>)>>
              /\ r.index.items[EngineLastID] = Row(<<>>)

\* Handle has succeeded on an empty content on an engine with no Embedder
C22_Witness ==
    /\ eng.last.called /\ eng.last.content = <<>>
    /\ ~eng.e.Embedder
    /\ eng.last.result.err = ""
    /\ Len(eng.last.result.trace) = 2

\* the same on an engine with an Embedder, a vector of the item being stored
C22_WitnessVectorKept ==
    /\ eng.last.called /\ eng.last.content = <<>>
    /\ eng.e.Embedder
    /\ eng.last.result.err = ""
    /\ eng.index.vecs[EngineLastID].row

(***************************************************************************)
(* C23: each migration is atomic, migrations go up in version order        *)
(***************************************************************************)
\* schema_version holds the versions 1..current, each once
NoVersionGap(db) ==
    /\ Range(db.versions) = 1..currentSchemaVersion(db)
    /\ \A v \in 1..currentSchemaVersion(db) : CountRows(db.versions, v) = 1

\* the call was made to fail inside the transaction of a pending migration
FailedInMigration(c) ==
    /\ c.op = "ApplyMigrations"
    /\ c.failAt \in Range(MigrationSteps)
    /\ c.failVersion > currentSchemaVersion(c.before)

\* C23: schema_version holds the versions 1..current with no gap in every
\* state; an ApplyMigrations in which a step of migration v fails returns an
\* error and leaves the database as the migrations below v leave it, with no
\* object and no version row of v or above; an ApplyMigrations in which no
\* step fails leaves the database at the latest version.
C23_MigrationsAtomicInOrder ==
    /\ NoVersionGap(schemaDB)
    /\ FailedInMigration(dbcall) =>
          /\ dbcall.err # ""
          /\ currentSchemaVersion(schemaDB) = dbcall.failVersion - 1
          /\ schemaDB = ensureSchemaVersionTable(
                            SchemaAt(dbcall.failVersion - 1, schemaDB.modules))
    /\ (dbcall.op = "ApplyMigrations" /\ dbcall.failAt = "") =>
          /\ dbcall.err = ""
          /\ schemaDB = SchemaAt(latestSchemaVersion, schemaDB.modules)

\* on an empty database migration 1 was committed and the insert of the
\* version row of migration 2 failed
C23_Witness ==
    /\ FailedInMigration(dbcall)
    /\ dbcall.failAt = "insert"
    /\ dbcall.failVersion = latestSchemaVersion
    /\ currentSchemaVersion(dbcall.before) = 0
    /\ currentSchemaVersion(schemaDB) = latestSchemaVersion - 1

\* a call resumed at the migration whose transaction had failed in the call
\* before it, and completed
C23_WitnessResumed ==
    /\ dbcalls >= 2
    /\ dbcall.op = "ApplyMigrations" /\ dbcall.err = ""
    /\ currentSchemaVersion(dbcall.before) = latestSchemaVersion - 1
    /\ currentSchemaVersion(schemaDB) = latestSchemaVersion

(***************************************************************************)
(* C24: within a run only the final force-push writes the index branch     *)
(***************************************************************************)
\* the step is the Push of a run in which parseConfigFromEnv, Pull, Open,
\* ParseEventFile and Handle, its comment reconcile included, have returned
\* no error, and in which Push has reached `git push --force`
FinalPushStep ==
    /\ pc = "handled" /\ pc' = "exit"
    /\ run.err = ""
    /\ pull.called /\ pull.err = ""
    /\ indexFile.kind = "db"
    /\ run.event # NoEvent
    /\ handle.called /\ handle.err = ""
    /\ handle.trace[Len(handle.trace)] = "UpsertTriageComment" /\ lastCall.err = ""
    /\ push'.called
    /\ push'.cmds = PushCommands
    /\ push'.err \in {"", "git push --force"}

\* a Push that returned before its `git push --force` has left the branch
BranchKeptByFailedPush ==
    (push.called /\ push.err \notin {"", "git push --force"}) => remote = push.before

\* C24, as stated: the branch changes only in the final force-push, made
\* after every earlier step of the run and every earlier git command of Push
\* succeeded.
C24_BranchWrittenAfterEveryGitStepSucceeded ==
    [][remote' # remote => FinalPushStep /\ ~push'.rmFailed]_vars

\* C24: the branch changes only in the final force-push, made after config
\* parsing, Pull, Open, event parsing and Handle with its comment reconcile
\* have succeeded and after every earlier command of Push succeeded, save
\* `git rm -rf .`, whose outcome Push does not look at; a run that fails at
\* an earlier step leaves the branch as it was.
C24_BranchWrittenOnlyByFinalPush ==
    /\ [][remote' # remote => FinalPushStep]_vars
    /\ []BranchKeptByFailedPush

\* a Push has replaced the branch left by earlier runs
C24_Witness ==
    /\ push.called /\ push.err = ""
    /\ push.before.exists
    /\ remote # push.before
    /\ handle.called /\ handle.err = ""

\* a Push has failed at `git commit`, the branch being there
C24_WitnessFailedPush ==
    /\ push.called /\ push.err = "git commit"
    /\ push.before.exists
    /\ remote = push.before

(***************************************************************************)
(* C25: the configured thresholds and maxResults are the ones fusion uses  *)
(***************************************************************************)
\* the latest Handle got as far as FuseResults
EngineFusionRan ==
    /\ eng.last.called
    /\ eng.last.result.err \in {"", "upsert item", "upsert vector", "upsert triage comment"}

EngineSearchedLists ==
    IF eng.last.content # <<>> THEN [vec |-> eng.last.vec, fts |-> eng.last.fts]
    ELSE [vec |-> <<>>, fts |-> <<>>]

\* the candidates of the latest Handle and the display similarity of each
EngineCandidates ==
    ({EngineSearchedLists.vec[i].ID : i \in 1..Len(EngineSearchedLists.vec)}
        \cup {EngineSearchedLists.fts[i].ID : i \in 1..Len(EngineSearchedLists.fts)})
    \ {"", EngineLastID}

EngineScoresOf(id) ==
    {clamp01(EngineSearchedLists.vec[i].VecScore) :
        i \in {k \in 1..Len(EngineSearchedLists.vec) : EngineSearchedLists.vec[k].ID = id}}
    \cup {clamp01(EngineSearchedLists.fts[i].FTSScore) :
        i \in {k \in 1..Len(EngineSearchedLists.fts) : EngineSearchedLists.fts[k].ID = id}}

EngineDisplayOf(id) == CHOOSE s \in EngineScoresOf(id) : \A t \in EngineScoresOf(id) : t <= s

\* the list Handle fused is the one fusion gives under the config cfg: the
\* candidates whose display similarity reaches cfg.SimilarityThreshold, cut
\* to cfg.MaxResults, each flagged duplicate iff it reaches
\* cfg.DuplicateThreshold
FusedUnder(cfg) ==
    LET list == eng.last.result.fused
        kept == {id \in EngineCandidates : EngineDisplayOf(id) >= cfg.SimilarityThreshold}
        n == IF Cardinality(kept) < cfg.MaxResults THEN Cardinality(kept) ELSE cfg.MaxResults
    IN /\ Len(list) = n
       /\ \A i \in 1..Len(list) :
             /\ list[i].ID \in kept
             /\ list[i].DisplaySimilarity = EngineDisplayOf(list[i].ID)
             /\ list[i].IsDuplicate = (list[i].DisplaySimilarity >= cfg.DuplicateThreshold)
       /\ \A i, j \in 1..Len(list) : list[i].ID = list[j].ID => i = j

\* C25, as stated: for every accepted configuration, thresholds of 0
\* included, Handle fuses under exactly the configured values.
C25_ConfiguredValuesApplied ==
    EngineFusionRan => FusedUnder(eng.e.Config)

\* with both thresholds above 0 Handle fuses under the configured values
C25_HoldsForPositiveThresholds ==
    (/\ EngineFusionRan
     /\ eng.e.Config.SimilarityThreshold > 0
     /\ eng.e.Config.DuplicateThreshold > 0) => FusedUnder(eng.e.Config)

\* in every case Handle fuses under similarityThreshold(), duplicateThreshold()
\* and maxResults(), which put 0.75 and 0.92 in the place of a threshold of 0
C25_DefaultsReplaceZero ==
    EngineFusionRan => FusedUnder(engineFuseConfig(eng.e))

\* a threshold of 0 was configured and a candidate below 0.75 was found
C25_ZeroThresholdReached ==
    /\ EngineFusionRan
    /\ eng.e.Config.SimilarityThreshold = 0
    /\ \E id \in EngineCandidates : EngineDisplayOf(id) < similarityThreshold(eng.e)

(***************************************************************************)
(* C26: what an UpsertVector that returns an error leaves in items_vec     *)
(***************************************************************************)
\* the row items_vec held for the id of the latest call is still there
PreviousVectorKept ==
    \A k \in 1..Len(dbcall.before) :
        dbcall.before[k].id = dbcall.id => dbcall.before[k] \in Range(itemsVec)

\* C26, as stated: whenever UpsertVector returns an error, the fallback path
\* included, the row stored before for that id is still present with its
\* bytes.
C26_FailedUpsertKeepsPreviousVector ==
    (dbcall.op = "UpsertVector" /\ dbcall.err # "") => PreviousVectorKept

\* every error but that of the fallback's INSERT leaves items_vec as it was
C26_HoldsUnlessFallbackInsertFails ==
    (dbcall.op = "UpsertVector" /\ dbcall.err \notin {"", "upsert vector insert"})
        => itemsVec = dbcall.before

\* the fallback's INSERT failed for an id that had a row
C26_FallbackInsertFailed ==
    /\ dbcall.op = "UpsertVector"
    /\ dbcall.err = "upsert vector insert"
    /\ dbcall.id \in VecIDs(dbcall.before)

(***************************************************************************)
(* C27: the vectors of the index after Handle calls that all succeeded     *)
(***************************************************************************)
\* C27, as stated: after Handle calls that all succeeded every vector row
\* has an item row, the vector stored for an item is the embedding of the
\* content of its latest event, and no vector is stored for an item whose
\* latest event has an empty content.
C27_VectorsFollowLatestEvent ==
    ~eng.failed =>
        \A id \in EngineItemIDs :
            /\ eng.index.vecs[id].row => eng.index.items[id].row
            /\ eng.latest[id].row =>
                  IF eng.latest[id].value = <<>> THEN ~eng.index.vecs[id].row
                  ELSE eng.index.vecs[id] = Row(EmbeddingOf(eng.latest[id].value))

\* every vector row has an item row holding the content of the item's latest
\* event, and a Handle that succeeded with a vector from the embedder has
\* stored that vector
C27_HoldsForVectorsUpserted ==
    ~eng.failed =>
        /\ \A id \in EngineItemIDs :
              /\ eng.index.vecs[id].row => eng.index.items[id].row
              /\ eng.index.items[id] = eng.latest[id]
        /\ (eng.last.called /\ Len(eng.last.result.embedding) > 0) =>
              eng.index.vecs[EngineLastID] = Row(eng.last.result.embedding)

\* an item handled with a content was handled again with an empty content,
\* and its vector is still stored
C27_StaleVectorReached ==
    /\ ~eng.failed
    /\ eng.calls = 2
    /\ eng.last.content = <<>>
    /\ eng.index.vecs[EngineLastID].row
    /\ eng.index.items[EngineLastID] = Row(<<>>)

(***************************************************************************)
(* C28: the access token and the warning line of a failed Pull or Push     *)
(***************************************************************************)
\* what git printed when the latest call failed: the text of a failed fetch,
\* nothing otherwise
GitOutput == IF pull.called /\ pull.fetchOut # "" THEN <<pull.fetchOut>> ELSE <<>>

\* the line main prints for the latest Pull or Push, had m been the manager
StateWarningLine(m) ==
    IF pull.called /\ pull.err # ""
    THEN logWarningText(wrapError("pull state", stateErrorText(m, pull.err, GitOutput)))
    ELSE IF push.called /\ push.err # ""
    THEN logWarningText(wrapError("push state", stateErrorText(m, push.err, GitOutput)))
    ELSE <<>>

OtherToken == "tkn2"

\* the latest Pull or Push failed after remoteURL had accepted the manager
FailedWithToken ==
    /\ ~Blank(manager.Token) /\ ~Blank(manager.Owner) /\ ~Blank(manager.Repo)
    /\ (pull.called /\ pull.err # "") \/ (push.called /\ push.err # "")

\* C28, as stated: the warning line printed for a failed step of Pull or
\* Push does not contain the token, and is the same line whatever the token.
C28_TokenNotInWarning ==
    FailedWithToken =>
        /\ manager.Token \notin Range(StateWarningLine(manager))
        /\ StateWarningLine(manager) =
              StateWarningLine([manager EXCEPT !.Token = OtherToken])

\* the token is in no warning line but that of a failed `git remote add`
C28_HoldsUnlessRemoteAddFails ==
    (FailedWithToken /\ "git remote add" \notin {pull.err, push.err}) =>
        /\ manager.Token \notin Range(StateWarningLine(manager))
        /\ StateWarningLine(manager) =
              StateWarningLine([manager EXCEPT !.Token = OtherToken])

\* `git remote add origin <url>` failed in a Pull
C28_RemoteAddFailed ==
    /\ FailedWithToken
    /\ pull.called /\ pull.err = "git remote add"
    /\ manager.Token \in Range(StateWarningLine(manager))

(***************************************************************************)
(* C29: FuseResults on lists from which the skipped entries were removed   *)
(***************************************************************************)
\* hits without the entries whose id is blank, is exclude, or has occurred
RECURSIVE withoutSkipped(_, _, _)
withoutSkipped(hits, exclude, seen) ==
    IF hits = <<>> THEN <<>>
    ELSE IF Head(hits).ID = "" \/ Head(hits).ID = exclude \/ Head(hits).ID \in seen
    THEN withoutSkipped(Tail(hits), exclude, seen)
    ELSE <<Head(hits)>> \o withoutSkipped(Tail(hits), exclude, seen \cup {Head(hits).ID})

FilteredVec == withoutSkipped(vecResults, excludeID, {})

FilteredFTS == withoutSkipped(ftsResults, excludeID, {})

\* no removed entry stands before an entry that is kept
SkippedAtTail(hits, filtered) == filtered = SubSeq(hits, 1, Len(filtered))

C29_WitnessRankShift ==
    /\ evals > 0
    /\ fused # <<>>
    /\ excludeID # ""
    /\ Len(vecResults) = MaxVecLen
    /\ vecResults[1].ID = excludeID
    /\ Len(FilteredVec) = Len(vecResults) - 1

(***************************************************************************)
(* C30: SearchVector on an index in which every vector has an item row     *)
(***************************************************************************)
AllVectorsHaveItems == \A id \in VecIDs(itemsVec) : \E r \in itemsTable : r.id = id

\* the rows of items_vec the call may return, and the distance of each
EligibleRows(c) == {k \in 1..Len(itemsVec) : itemsVec[k].id # c.exclude}

RowDistance(c, k) == vectorHit(itemsVec[k], c.query).Distance

\* the results are min(limit, eligible rows) in number, one per row, and no
\* eligible row left out is nearer than a row returned
NearestEligible(c) ==
    /\ Len(c.results) = MinOf(c.limit, Cardinality(EligibleRows(c)))
    /\ \A i \in 1..Len(c.results) :
          \E k \in EligibleRows(c) :
             /\ itemsVec[k].id = c.results[i].ID
             /\ RowDistance(c, k) = c.results[i].Distance
    /\ \A i, j \in 1..Len(c.results) : c.results[i].ID = c.results[j].ID => i = j
    /\ \A k \in EligibleRows(c) :
          (\A i \in 1..Len(c.results) : c.results[i].ID # itemsVec[k].id) =>
             \A i \in 1..Len(c.results) : c.results[i].Distance <= RowDistance(c, k)

\* C30, as stated: when every stored vector has an item row, a SearchVector
\* with limit >= 1 that returns no error returns min(limit, number of stored
\* vectors whose id differs from excludeId) results, the nearest such items.
C30_ReturnsNearestUpToLimit ==
    (/\ dbcall.op = "SearchVector" /\ dbcall.err = "" /\ dbcall.limit >= 1
     /\ AllVectorsHaveItems) => NearestEligible(dbcall)

\* C30: when every stored vector has an item row, a SearchVector with a
\* query of at least one component and limit >= 1 that returns no error
\* returns min(limit, number of stored vectors whose id differs from
\* excludeId) results, the nearest such items; with a query of no component
\* it returns no result.
C30_ReturnsNearestUpToLimitForQuery ==
    (/\ dbcall.op = "SearchVector" /\ dbcall.err = "" /\ dbcall.limit >= 1
     /\ AllVectorsHaveItems) =>
        IF VecLen(dbcall.query) > 0 THEN NearestEligible(dbcall) ELSE dbcall.results = <<>>

\* the excluded item was among the candidates of a search that filled its
\* limit from more vectors than 3 x limit
C30_Witness ==
    /\ SearchedOK(dbcall)
    /\ AllVectorsHaveItems
    /\ Len(itemsVec) > 3 * dbcall.limit
    /\ \E k \in 1..Len(dbcall.hits) : dbcall.hits[k].ID = dbcall.exclude
    /\ Len(dbcall.results) = dbcall.limit

\* fewer eligible vectors than the limit: all of them are returned
C30_WitnessFewerThanLimit ==
    /\ SearchedOK(dbcall)
    /\ AllVectorsHaveItems
    /\ dbcall.limit = MaxLimit
    /\ Len(dbcall.results) = 1
    /\ Len(itemsVec) = 2

====
